---- MODULE Spec2Model ----
(***************************************************************************)
(* A model of libfru (alatarum/frugen): the decoded FRU instance with its  *)
(* presence flags and area order, the area enable/disable/move operations, *)
(* the record lists, the info-area field codec and the binary file         *)
(* assembler.  Strings are sequences of character codes, buffers are       *)
(* sequences of bytes.                                                     *)
(***************************************************************************)
EXTENDS Integers, Sequences, FiniteSets, TLC

VARIABLES
    present,    \* fru->present[]: area tag -> BOOLEAN
    order,      \* fru->order[]: slot 0..4 -> area tag
    internal,   \* fru->internal: hex string, or NoString for NULL
    fields,     \* the mandatory fields of the three info areas
    langtype,   \* chassis type / board and product language code
    tv,         \* board.tv_auto and board.tv.tv_sec
    cust,       \* custom field lists of the three info areas
    mr,         \* fru->mr: list of multirecord records
    err,        \* fru_errno.code (thread-local, persists across calls)
    errsrc,     \* fru_errno.src: the area the error is in, general, or caller
    call,       \* the last library call: operation, area argument, return value
    oob,        \* the last call stored outside an object's bounds
    fld,        \* field codec: the input field (encoding, string)
    enc,        \* field codec: the encoded field, fru__file_field_t bytes
    dec,        \* field codec: the field decoded back from `enc`
    buf,        \* the buffer returned by the last fru_savebuffer()
    cur         \* the caller's locals: index variable, what a call returned;
                \* in fru_savefile() its own locals and the file it writes

vars == <<present, order, internal, fields, langtype, tv, cust, mr, err, errsrc,
          call, oob, fld, enc, dec, buf, cur>>

ordervars == <<present, order>>
datavars == <<internal, fields, langtype, tv, cust, mr>>
codecvars == <<fld, enc, dec>>

(***************************************************************************)
(* Area tags and area positions                                            *)
(***************************************************************************)
FRU_INTERNAL_USE == 0
FRU_CHASSIS_INFO == 1
FRU_BOARD_INFO == 2
FRU_PRODUCT_INFO == 3
FRU_MR == 4
FRU_MIN_AREA == FRU_INTERNAL_USE
FRU_MAX_AREA == FRU_MR
FRU_TOTAL_AREAS == 5

Areas == FRU_MIN_AREA..FRU_MAX_AREA
InfoAreas == FRU_CHASSIS_INFO..FRU_PRODUCT_INFO

FRU_IS_VALID_AREA(t) == t >= FRU_MIN_AREA /\ t <= FRU_MAX_AREA
FRU_IS_INFO_AREA(t) == t >= FRU_CHASSIS_INFO /\ t <= FRU_PRODUCT_INFO

\* Slots of order[]
FRU_APOS_MIN == 0
FRU_APOS_MAX == 4
Slots == FRU_APOS_MIN..FRU_APOS_MAX

\* Position specifiers: automatic, first, last, or "after area X" (the tag X)
FRU_APOS_AUTO == -1
FRU_APOS_LAST == -2
FRU_APOS_FIRST == -3
FRU_IS_APOS_VALID(p) == p >= FRU_APOS_FIRST /\ p <= FRU_APOS_MAX

(***************************************************************************)
(* Error codes (fru_errno.code)                                            *)
(***************************************************************************)
FENONE == "FENONE"
FEGENERIC == "FEGENERIC"
FEAREABADTYPE == "FEAREABADTYPE"
FEAREANOTSUP == "FEAREANOTSUP"
FEAPOS == "FEAPOS"
FEAENABLED == "FEAENABLED"
FEADISABLED == "FEADISABLED"
FEINIT == "FEINIT"
FENOFIELD == "FENOFIELD"
FENOREC == "FENOREC"
FEMREND == "FEMREND"
FEMRNOTSUP == "FEMRNOTSUP"
FENONHEX == "FENONHEX"
FENOTEVEN == "FENOTEVEN"
FERANGE == "FERANGE"
FENONPRINT == "FENONPRINT"
FEBADENC == "FEBADENC"
FEAUTOENC == "FEAUTOENC"
FE2BIG == "FE2BIG"
FESIZE == "FESIZE"
FEAREADUP == "FEAREADUP"
FEMRMGMTBAD == "FEMRMGMTBAD"
FEBDATE == "FEBDATE"

\* Error sources (fru_errno.src): an area tag, or one of
FERR_LOC_INTERNAL == FRU_INTERNAL_USE
FERR_LOC_MR == FRU_MR
FERR_LOC_GENERAL == 5
FERR_LOC_CALLER == 6
\* The error code an operation is handed when only what it does to
\* fru_errno is asked for
Untouched == "untouched"
\* fru_errno.src after a callee that was handed Untouched and came back
\* with code e: left alone, zeroed by fru_clearerr(), or set by a
\* fru__seterr(..., FERR_LOC_GENERAL, ...)
GeneralSrc(e, s) ==
    IF e = Untouched THEN s
    ELSE IF e = FENONE THEN FERR_LOC_INTERNAL
    ELSE FERR_LOC_GENERAL

NoString == <<-1>>
NoBuffer == <<-1>>
NoField == [enc |-> "none", val |-> <<>>]
NoCall == [op |-> "init", a |-> -1, rc |-> TRUE]
\* The caller's locals before any call: the index it passed, its index
\* variable after the call, the record type it asked for, the list
\* position of the entry the call returned (-1 for NULL), the field or
\* record it passed, the flags it gave to a load, whether it supplied an
\* instance to the load, and whether the load went through the whole file
NoArg == [enc |-> "none", val |-> <<>>]
NoCur ==
    [in |-> 0, index |-> 0, type |-> "none", ret |-> -1, arg |-> NoArg,
     flags |-> {}, supplied |-> FALSE, done |-> FALSE]

(***************************************************************************)
(* Characters and bytes                                                    *)
(***************************************************************************)
IsDigit(c) == c >= 48 /\ c <= 57
IsUpperHex(c) == c >= 65 /\ c <= 70
IsLowerHex(c) == c >= 97 /\ c <= 102
IsXDigit(c) == IsDigit(c) \/ IsUpperHex(c) \/ IsLowerHex(c)
IsPrint(c) == c >= 32 /\ c <= 126
\* Separators of the relaxed hex mode: space, tab, colon, dash, dot
IsHexSeparator(c) == c \in {32, 9, 58, 45, 46}

\* The character at 0-based index i of the C string s; the terminating NUL
\* at index strlen(s)
CharAt(s, i) == IF i < Len(s) THEN s[i + 1] ELSE 0

\* A byte array read as a C string: the bytes before the first NUL
CString(b) ==
    IF \E i \in 1..Len(b) : b[i] = 0
    THEN SubSeq(b, 1, (CHOOSE i \in 1..Len(b) : b[i] = 0 /\ \A j \in 1..(i - 1) : b[j] # 0) - 1)
    ELSE b

\* Store v at 0-based index i of the byte array d (one past the end appends)
Poke(d, i, v) ==
    IF i < Len(d) THEN [d EXCEPT ![i + 1] = v]
    ELSE IF i = Len(d) THEN Append(d, v)
    ELSE d

\* The first n bytes of d, zero-filled when d is shorter
Take(d, n) == [i \in 1..n |-> IF i <= Len(d) THEN d[i] ELSE 0]

(***************************************************************************)
(* Field type/length byte                                                  *)
(***************************************************************************)
FRU__TYPE_BINARY == 0
FRU__TYPE_BCDPLUS == 1
FRU__TYPE_ASCII_6BIT == 2
FRU__TYPE_TEXT == 3
FRU__TYPE_BITS_SHIFT == 6
FRU__FIELDMAXLEN == 63

FRU__FIELDLEN(x) == x % 64
FRU__TYPELEN(t, l) == t * 64 + FRU__FIELDLEN(l)
FRU__TYPE(tl) == (tl \div 64) % 4
FRU__FIELD_EMPTY == FRU__TYPELEN(FRU__TYPE_TEXT, 0)
FRU__FIELD_TERMINATOR == FRU__TYPELEN(FRU__TYPE_TEXT, 1)

FRU__6BIT_LENGTH(len) == (len * 3 + 3) \div 4
FRU__6BIT_FULLLENGTH(l6) == (l6 * 4) \div 3
FRU__6BIT_MAXVALUE == 63
FRU__6BIT_BASE == 32

\* Field encodings (fru_field_enc_t); the real ones map to the type bits
RealEncs == {"BINARY", "BCDPLUS", "6BITASCII", "TEXT"}
FRU_FE_IS_REAL(e) == e \in RealEncs
FRU_FE_FROMREAL(t) ==
    CASE t = FRU__TYPE_BINARY -> "BINARY"
      [] t = FRU__TYPE_BCDPLUS -> "BCDPLUS"
      [] t = FRU__TYPE_ASCII_6BIT -> "6BITASCII"
      [] OTHER -> "TEXT"

Failed(e) == [ok |-> FALSE, err |-> e, typelen |-> 0, data |-> <<>>]
\* No field has been encoded yet
NoEncoded == Failed("none")

(***************************************************************************)
(* fru_hex2byte(), fru__hexstr2bin(), fru__decode_raw_binary()             *)
(***************************************************************************)
HexNibble(c) ==
    IF IsDigit(c) THEN c - 48
    ELSE IF IsUpperHex(c) THEN c - 65 + 10
    ELSE c - 97 + 10

\* fru_hex2byte(): the byte of two hex digits, -1 when either is not one
fru_hex2byte(c0, c1) ==
    IF IsXDigit(c0) /\ IsXDigit(c1) THEN HexNibble(c0) * 16 + HexNibble(c1) ELSE -1

\* The conversion loop of fru__hexstr2bin(): ptr is the 0-based read index,
\* limit is the incoming *outsize (0 for no limit)
RECURSIVE HexLoop(_, _, _, _, _)
HexLoop(s, strict, limit, ptr, out) ==
    IF ~(CharAt(s, ptr) # 0 /\ CharAt(s, ptr + 1) # 0 /\ (limit = 0 \/ Len(out) < limit))
      THEN [ok |-> TRUE, ptr |-> ptr, out |-> out]
    ELSE IF IsHexSeparator(CharAt(s, ptr)) /\ ~strict
      THEN HexLoop(s, strict, limit, ptr + 1, out)
    ELSE IF fru_hex2byte(CharAt(s, ptr), CharAt(s, ptr + 1)) < 0
      THEN [ok |-> FALSE, ptr |-> ptr, out |-> out]
    ELSE HexLoop(s, strict, limit, ptr + 2,
                 Append(out, fru_hex2byte(CharAt(s, ptr), CharAt(s, ptr + 1))))

\* fru__hexstr2bin(out, outsize, hex_mode, s) called with error code e:
\* success, the error code afterwards and the bytes written
HexResult(s, limit, e, r) ==
    IF ~r.ok THEN [ok |-> FALSE, err |-> FENONHEX, data |-> r.out]
    ELSE IF limit # 0 /\ Len(r.out) = limit /\ CharAt(s, r.ptr) # 0
      THEN [ok |-> TRUE, err |-> FE2BIG, data |-> r.out]
    ELSE IF CharAt(s, r.ptr) # 0
      THEN [ok |-> FALSE, err |-> FENOTEVEN, data |-> r.out]
    ELSE [ok |-> TRUE, err |-> e, data |-> r.out]

fru__hexstr2bin(s, strict, limit, e) ==
    HexResult(s, limit, e, HexLoop(s, strict, limit, 0, <<>>))

nibble2hex(n) == IF n > 9 THEN n - 10 + 65 ELSE n + 48

\* fru__decode_raw_binary(): two uppercase hex digits per byte
fru__decode_raw_binary(b) ==
    [i \in 1..(2 * Len(b)) |->
        IF i % 2 = 1 THEN nibble2hex(b[(i + 1) \div 2] \div 16)
        ELSE nibble2hex(b[i \div 2] % 16)]

(***************************************************************************)
(* Field encoders: fru_setfield.c                                          *)
(***************************************************************************)
\* A length that does not fit the six length bits, and what is kept of it
TooBig(n) == n > FRU__FIELDLEN(n)
Truncated(n) == IF TooBig(n) THEN FRU__FIELDLEN(n) ELSE n

\* The encoded field an encoder leaves in `out`: r is the result of its
\* conversion loop, len the length it settled on, big whether it truncated
Packed(type, len, big, e, r) ==
    [ok |-> TRUE, err |-> IF big THEN FE2BIG ELSE e,
     typelen |-> FRU__TYPELEN(type, len), data |-> Take(r.data, len)]

BinaryField(r) ==
    IF ~r.ok THEN Failed(r.err)
    ELSE Packed(FRU__TYPE_BINARY, Len(r.data), FALSE, r.err, r)

encode_binary(s, strict, e) ==
    BinaryField(fru__hexstr2bin(s, strict, FRU__FIELDMAXLEN, e))

\* The packing loop of encode_6bit(); d is out->data
RECURSIVE SixBitLoop(_, _, _, _, _)
SixBitLoop(s, len6bit, i, i6, d) ==
    IF ~(i < Len(s) /\ i6 < len6bit) THEN [ok |-> TRUE, data |-> d]
    ELSE LET raw == CharAt(s, i) - FRU__6BIT_BASE
             c == raw % 64
         IN  IF raw > FRU__6BIT_MAXVALUE THEN [ok |-> FALSE, data |-> d]
             ELSE CASE i % 4 = 0 ->
                         SixBitLoop(s, len6bit, i + 1, i6, Poke(d, i6, c))
                    [] i % 4 = 1 ->
                         SixBitLoop(s, len6bit, i + 1, i6 + 1,
                                    Poke(Poke(d, i6, CharAt(d, i6) + ((c % 4) * 64)),
                                         i6 + 1, c \div 4))
                    [] i % 4 = 2 ->
                         SixBitLoop(s, len6bit, i + 1, i6 + 1,
                                    Poke(Poke(d, i6, CharAt(d, i6) + ((c % 16) * 16)),
                                         i6 + 1, c \div 16))
                    [] OTHER ->
                         SixBitLoop(s, len6bit, i + 1, i6 + 1,
                                    Poke(d, i6, CharAt(d, i6) + (c * 4)))

SixBitField(len6bit, big, e, r) ==
    IF ~r.ok THEN Failed(FERANGE)
    ELSE Packed(FRU__TYPE_ASCII_6BIT, len6bit, big, e, r)

encode_6bit(s, e) ==
    SixBitField(Truncated(FRU__6BIT_LENGTH(Len(s))), TooBig(FRU__6BIT_LENGTH(Len(s))), e,
                SixBitLoop(s, Truncated(FRU__6BIT_LENGTH(Len(s))), 0, 0, <<>>))

\* The nibble of a BCD+ character, -1 when the character has none
BcdNibble(ch) ==
    CASE ch = 32 -> 10
      [] ch = 45 -> 11
      [] ch = 46 -> 12
      [] IsDigit(ch) -> ch - 48
      [] OTHER -> -1

\* The packing loop of encode_bcdplus(): c0 and c1 are the array c[2],
\* which keeps its values from one character to the next
RECURSIVE BcdLoop(_, _, _, _, _)
BcdLoop(s, i, c0, c1, d) ==
    IF ~(i < Len(s)) THEN [ok |-> TRUE, data |-> d]
    ELSE LET n == BcdNibble(CharAt(s, i))
             n0 == IF i % 2 = 0 THEN n ELSE c0
             n1 == IF i % 2 = 1 THEN n ELSE c1
         IN  IF n < 0 THEN [ok |-> FALSE, data |-> d]
             ELSE BcdLoop(s, i + 1, n0, n1, Poke(d, i \div 2, ((n0 * 16) % 256) + n1))

BcdField(lenbcd, big, e, r) ==
    IF ~r.ok THEN Failed(FERANGE)
    ELSE Packed(FRU__TYPE_BCDPLUS, lenbcd, big, e, r)

encode_bcdplus(s, e) ==
    BcdField(Truncated((Len(s) + 1) \div 2), TooBig((Len(s) + 1) \div 2), e,
             BcdLoop(s, 0, 0, 0, <<>>))

\* encode_text() clears the error code first, then copies the characters
\* up to the length in the type/length byte
\* The type/length byte of a text of len characters: length 1 would read as
\* the terminator, so it becomes 2
TextTypelen(len) ==
    IF FRU__TYPELEN(FRU__TYPE_TEXT, len) = FRU__FIELD_TERMINATOR
    THEN FRU__TYPELEN(FRU__TYPE_TEXT, len) + 1
    ELSE FRU__TYPELEN(FRU__TYPE_TEXT, len)

TextField(s, big, typelen) ==
    IF \E i \in 0..(FRU__FIELDLEN(typelen) - 1) : ~IsPrint(CharAt(s, i))
    THEN Failed(FENONPRINT)
    ELSE [ok |-> TRUE, err |-> IF big THEN FE2BIG ELSE FENONE,
          typelen |-> typelen,
          data |-> [i \in 1..FRU__FIELDLEN(typelen) |-> CharAt(s, i - 1)]]

encode_text(s, e) == TextField(s, TooBig(Len(s)), TextTypelen(Truncated(Len(s))))

\* One encoder of the table encode[] in fru__encode_field()
EncodeAs(encoding, s, strict, e) ==
    CASE encoding = "BINARY" -> encode_binary(s, strict, e)
      [] encoding = "BCDPLUS" -> encode_bcdplus(s, e)
      [] encoding = "6BITASCII" -> encode_6bit(s, e)
      [] OTHER -> encode_text(s, e)

\* The order in which automatic selection tries the encodings
auto_encs == <<"6BITASCII", "BCDPLUS", "BINARY", "TEXT">>

RECURSIVE AutoEncode(_, _, _)
AutoNext(s, i, r) == IF r.ok THEN r ELSE AutoEncode(s, i + 1, r.err)
AutoEncode(s, i, e) ==
    IF i > Len(auto_encs) THEN Failed(FEAUTOENC)
    ELSE AutoNext(s, i, EncodeAs(auto_encs[i], s, TRUE, e))

\* fru__encode_field(out_field, encoding, s) called with error code e
fru__encode_field(encoding, s, e) ==
    IF encoding = "EMPTY"
      THEN [ok |-> TRUE, err |-> e, typelen |-> FRU__FIELD_EMPTY, data |-> <<>>]
    ELSE IF encoding # "AUTO" /\ ~FRU_FE_IS_REAL(encoding) THEN Failed(FEBADENC)
    ELSE IF Len(s) = 0
      THEN [ok |-> TRUE, err |-> e, typelen |-> FRU__FIELD_EMPTY, data |-> <<>>]
    ELSE IF FRU_FE_IS_REAL(encoding) THEN EncodeAs(encoding, s, FALSE, e)
    ELSE AutoEncode(s, 1, e)

(***************************************************************************)
(* Field decoders: fru__decode.c                                           *)
(***************************************************************************)
\* cut_tail(): strip the trailing spaces
RECURSIVE cut_tail(_)
cut_tail(s) ==
    IF Len(s) > 0 /\ s[Len(s)] = 32 THEN cut_tail(SubSeq(s, 1, Len(s) - 1)) ELSE s

decode_binary(typelen, data) == fru__decode_raw_binary(Take(data, FRU__FIELDLEN(typelen)))

BcdChar(n) ==
    CASE n = 10 -> 32
      [] n = 11 -> 45
      [] n = 12 -> 46
      [] n >= 13 -> 63
      [] OTHER -> n + 48

decode_bcdplus(typelen, data) ==
    cut_tail([i \in 1..(2 * FRU__FIELDLEN(typelen)) |->
        BcdChar(IF i % 2 = 1 THEN data[(i + 1) \div 2] \div 16
                ELSE data[i \div 2] % 16)])

\* The unpacking loop of decode_6bit(); it ends at a zero byte of the input
RECURSIVE Decode6Loop(_, _, _, _, _, _)
Decode6Loop(s6, len6bit, len, i, i6, val) ==
    IF ~(i6 <= len6bit /\ i < len /\ CharAt(s6, i6) # 0) THEN val
    ELSE LET b0 == CharAt(s6, i6)
             b1 == CharAt(s6, i6 + 1)
             v == CASE i % 4 = 0 -> b0 % 64
                    [] i % 4 = 1 -> ((b0 \div 64) + ((b1 * 4) % 256)) % 64
                    [] i % 4 = 2 -> ((b0 \div 16) + ((b1 * 16) % 256)) % 64
                    [] OTHER -> (b0 \div 4) % 64
         IN  Decode6Loop(s6, len6bit, len, i + 1,
                         IF i % 4 = 0 THEN i6 ELSE i6 + 1,
                         Append(val, v + FRU__6BIT_BASE))

decode_6bit(typelen, data) ==
    cut_tail(Decode6Loop(data, FRU__FIELDLEN(typelen),
                         FRU__6BIT_FULLLENGTH(FRU__FIELDLEN(typelen)), 0, 0, <<>>))

decode_text(typelen, data) == CString(Take(data, FRU__FIELDLEN(typelen)))

\* fru__decode_field(out, field): the decoded field, a C string in val
fru__decode_field(typelen, data) ==
    [enc |-> FRU_FE_FROMREAL(FRU__TYPE(typelen)),
     val |-> CASE FRU__TYPE(typelen) = FRU__TYPE_BINARY -> decode_binary(typelen, data)
               [] FRU__TYPE(typelen) = FRU__TYPE_BCDPLUS -> decode_bcdplus(typelen, data)
               [] FRU__TYPE(typelen) = FRU__TYPE_ASCII_6BIT -> decode_6bit(typelen, data)
               [] OTHER -> decode_text(typelen, data)]

\* fru_setfield(field, encoding, s): encode, then decode into the field
SetFieldResult(field, r) ==
    IF ~r.ok THEN [ok |-> FALSE, err |-> r.err, field |-> field]
    ELSE [ok |-> TRUE, err |-> r.err, field |-> fru__decode_field(r.typelen, r.data)]

fru_setfield(field, encoding, s, e) ==
    SetFieldResult(field,
        fru__encode_field(IF encoding # "PRESERVE" THEN encoding
                          ELSE IF FRU_FE_IS_REAL(field.enc) THEN field.enc
                          ELSE "AUTO",
                          s, e))

(***************************************************************************)
(* fru_enable_area(), fru_disable_area(), fru_move_area()                  *)
(***************************************************************************)

\* The slot of order[] that holds area atype, FRU_APOS_AUTO when none does
OldPos(ord, atype) ==
    IF \E i \in Slots : ord[i] = atype
    THEN CHOOSE i \in Slots : ord[i] = atype /\ \A j \in Slots : ord[j] = atype => i <= j
    ELSE FRU_APOS_AUTO

\* The backward scan of fru_enable_area() for the slot to insert at.
\* i is the loop variable, np is new_pos, anp is auto_new_pos, lpa is
\* last_pos_atype.
RECURSIVE EnableScan(_, _, _, _, _, _, _, _)
EnableScan(ord, pres, atype, after, i, np, anp, lpa) ==
    IF i < FRU_APOS_MIN THEN [new_pos |-> np, auto_new_pos |-> anp]
    ELSE LET pos_atype == ord[i]
             upd == /\ (~pres[pos_atype] \/ pos_atype <= atype)
                    /\ \/ (pres[pos_atype] /\ lpa < pos_atype)
                       \/ (~pres[pos_atype] /\ anp = FRU_APOS_AUTO)
         IN  IF after = FRU_APOS_FIRST /\ ~pres[pos_atype]
               THEN [new_pos |-> np, auto_new_pos |-> anp]
             ELSE IF pres[pos_atype] /\ pos_atype = after
               THEN [new_pos |-> np, auto_new_pos |-> anp]
             ELSE EnableScan(ord, pres, atype, after, i - 1, i - 1,
                             IF upd THEN np ELSE anp,
                             IF upd THEN pos_atype ELSE lpa)

\* new_pos if the automatic position won whatever the caller asked for
ScannedPosAuto(after, r) ==
    IF r.auto_new_pos # FRU_APOS_AUTO THEN r.auto_new_pos ELSE r.new_pos
\* new_pos as computed by fru_enable_area()
ScannedPos(after, r) ==
    IF after = FRU_APOS_AUTO /\ r.auto_new_pos # FRU_APOS_AUTO
    THEN r.auto_new_pos
    ELSE r.new_pos

EnableNewPos(ord, pres, atype, after) ==
    IF after = FRU_APOS_LAST THEN FRU_APOS_MAX
    ELSE ScannedPos(after, EnableScan(ord, pres, atype, after, FRU_APOS_MAX,
                                      FRU_APOS_MAX, FRU_APOS_AUTO, FRU_MIN_AREA))

\* Shift the slots old_pos+1..new_pos one to the left and store atype at
\* new_pos.  A store to order[-1] lands outside the array.
ShiftLeft(ord, old_pos, new_pos, atype) ==
    [i \in Slots |->
        IF i = new_pos THEN atype
        ELSE IF i >= old_pos /\ i < new_pos THEN ord[i + 1]
        ELSE ord[i]]

\* Shift the slots new_pos..old_pos-1 one to the right, store atype at new_pos
ShiftRight(ord, old_pos, new_pos, atype) ==
    [i \in Slots |->
        IF i = new_pos THEN atype
        ELSE IF i > new_pos /\ i <= old_pos THEN ord[i - 1]
        ELSE ord[i]]

\* What the store order[-1] = atype can do to the instance: order[] is
\* preceded in fru_t by present[], so the store either misses the modelled
\* members or overwrites the last presence flag with the byte atype.
StoreBelowOrder(pres, atype, isoob) ==
    IF isoob
    THEN {pres, [pres EXCEPT ![FRU_MR] = (atype # 0) \/ atype = FRU_MR]}
    ELSE {pres}

\* The instance after fru_enable_area() moved atype from old_pos to new_pos
Enabled(ord, pres, e, atype, old_pos, new_pos) ==
    [rc |-> TRUE, err |-> e,
     order |-> ShiftLeft(ord, old_pos, new_pos, atype),
     present |-> [pres EXCEPT ![atype] = TRUE],
     oob |-> new_pos < FRU_APOS_MIN]

\* fru_enable_area() without the check for an area that is already enabled
EnableAreaUnchecked(ord, pres, e, atype, after) ==
    IF ~FRU_IS_VALID_AREA(atype)
      THEN [rc |-> FALSE, err |-> FEAREABADTYPE, order |-> ord, present |-> pres, oob |-> FALSE]
    ELSE IF ~FRU_IS_APOS_VALID(after)
      THEN [rc |-> FALSE, err |-> FEAPOS, order |-> ord, present |-> pres, oob |-> FALSE]
    ELSE IF OldPos(ord, atype) = FRU_APOS_AUTO
      THEN [rc |-> FALSE, err |-> FEINIT, order |-> ord, present |-> pres, oob |-> FALSE]
    ELSE Enabled(ord, pres, e, atype, OldPos(ord, atype),
                 EnableNewPos(ord, pres, atype, after))

\* The result of fru_enable_area(fru, atype, after) on the instance
\* (ord, pres) with error code e: return value, error code, new order and
\* presence, and whether order[-1] was stored to.
EnableArea(ord, pres, e, atype, after) ==
    IF ~FRU_IS_VALID_AREA(atype)
      THEN [rc |-> FALSE, err |-> FEAREABADTYPE, order |-> ord, present |-> pres, oob |-> FALSE]
    ELSE IF ~FRU_IS_APOS_VALID(after)
      THEN [rc |-> FALSE, err |-> FEAPOS, order |-> ord, present |-> pres, oob |-> FALSE]
    ELSE IF pres[atype]
      THEN [rc |-> FALSE, err |-> FEAENABLED, order |-> ord, present |-> pres, oob |-> FALSE]
    ELSE IF OldPos(ord, atype) = FRU_APOS_AUTO
      THEN [rc |-> FALSE, err |-> FEINIT, order |-> ord, present |-> pres, oob |-> FALSE]
    ELSE Enabled(ord, pres, e, atype, OldPos(ord, atype),
                 EnableNewPos(ord, pres, atype, after))

\* The forward scan of fru_disable_area() over the non-present prefix
RECURSIVE DisableScan(_, _, _, _, _)
DisableScan(ord, pres, atype, i, np) ==
    IF i > FRU_APOS_MAX THEN np
    ELSE IF pres[ord[i]] \/ ord[i] > atype THEN np
    ELSE DisableScan(ord, pres, atype, i + 1, i + 1)

\* The instance after fru_disable_area() moved atype from old_pos to new_pos
Disabled(ord, pres, e, atype, old_pos, new_pos) ==
    [rc |-> TRUE, err |-> e,
     order |-> ShiftRight(ord, old_pos, new_pos, atype),
     present |-> [pres EXCEPT ![atype] = FALSE],
     oob |-> new_pos > FRU_APOS_MAX]

\* The result of fru_disable_area(fru, atype)
DisableArea(ord, pres, e, atype) ==
    IF ~FRU_IS_VALID_AREA(atype)
      THEN [rc |-> FALSE, err |-> FEAREABADTYPE, order |-> ord, present |-> pres, oob |-> FALSE]
    ELSE IF ~pres[atype]
      THEN [rc |-> TRUE, err |-> FEAENABLED, order |-> ord, present |-> pres, oob |-> FALSE]
    ELSE IF OldPos(ord, atype) = FRU_APOS_AUTO
      THEN [rc |-> FALSE, err |-> FEINIT, order |-> ord, present |-> pres, oob |-> FALSE]
    ELSE Disabled(ord, pres, e, atype, OldPos(ord, atype),
                  DisableScan(ord, pres, atype, FRU_APOS_MIN, FRU_APOS_MIN))

\* fru_errno.src after fru_enable_area() came to r, s being the source
\* before: the call registers an error exactly when it returns false
EnableSrc(atype, r, s) ==
    IF r.rc THEN s
    ELSE IF r.err = FEAENABLED THEN atype
    ELSE IF r.err = FEINIT THEN FERR_LOC_GENERAL
    ELSE FERR_LOC_CALLER

\* fru_errno.src after fru_disable_area() on the flags pres came to r: the
\* call registers an error when it returns false and when the area was
\* not enabled
DisableSrc(pres, atype, r, s) ==
    IF ~r.rc THEN FERR_LOC_CALLER
    ELSE IF ~pres[atype] THEN atype
    ELSE s

\* fru_errno.src after fru_move_area(): fru_clearerr(), the disabling, and
\* the enabling when it gets that far
MoveSrc(ord, pres, area, after) ==
    LET d == DisableArea(ord, pres, FENONE, area)
    IN  IF ~d.rc \/ d.err # FENONE THEN DisableSrc(pres, area, d, FERR_LOC_INTERNAL)
        ELSE EnableSrc(area, EnableArea(d.order, d.present, d.err, area, after),
                       FERR_LOC_INTERNAL)

\* The result of fru_move_area(fru, area, after)
Reenabled(d, area, after) ==
    IF ~d.rc \/ d.err # FENONE THEN [d EXCEPT !.rc = FALSE]
    ELSE EnableArea(d.order, d.present, d.err, area, after)

MoveArea(ord, pres, e, area, after) ==
    Reenabled(DisableArea(ord, pres, FENONE, area), area, after)

(***************************************************************************)
(* Initial state: fru_init()                                               *)
(***************************************************************************)
\* The number of mandatory fields of each info area
fru__fieldcount(a) ==
    CASE a = FRU_CHASSIS_INFO -> 2
      [] a = FRU_BOARD_INFO -> 5
      [] a = FRU_PRODUCT_INFO -> 7
      [] OTHER -> 0

\* A zero-filled fru_field_t
ZeroField == [enc |-> "EMPTY", val |-> <<>>]

\* SMBIOS chassis type "rack mount", the default of fru_init()
FRU__DEFAULT_CHASSIS_TYPE == 23

InitFru ==
    /\ present = [a \in Areas |-> FALSE]
    /\ order = [i \in Slots |-> i]
    /\ internal = NoString
    /\ fields = [a \in InfoAreas |-> [i \in 1..fru__fieldcount(a) |-> ZeroField]]
    /\ langtype = [a \in InfoAreas |->
                      IF a = FRU_CHASSIS_INFO THEN FRU__DEFAULT_CHASSIS_TYPE ELSE 0]
    /\ tv = [auto |-> TRUE, sec |-> 0]
    /\ cust = [a \in InfoAreas |-> <<>>]
    /\ mr = <<>>
    /\ err = FENONE
    /\ errsrc = FERR_LOC_INTERNAL
    /\ call = NoCall
    /\ oob = FALSE
    /\ buf = NoBuffer
    /\ cur = NoCur

Init ==
    /\ InitFru
    /\ fld = NoField
    /\ enc = NoEncoded
    /\ dec = NoField

(***************************************************************************)
(* Arguments the callers pass                                              *)
(***************************************************************************)
\* Position arguments: automatic, first, last, or after one of the areas
PosArgs == {FRU_APOS_AUTO, FRU_APOS_FIRST, FRU_APOS_LAST} \cup Areas

\* The record of a call for `call`
Called(op, a, rc) == [op |-> op, a |-> a, rc |-> rc]

\* A run is followed up to its first store outside an object or its crash:
\* what the process does after that is not defined by the program
Alive == ~oob /\ call.op # "crash"

(***************************************************************************)
(* Actions: the area order API                                             *)
(***************************************************************************)
\* The area order and flags after a call that ended in fru_enable_area()
\* with result r; rc is what the call itself returns
Reordered(op, a, rc, r) ==
    /\ order' = r.order
    /\ present' \in StoreBelowOrder(r.present, a, r.oob)
    /\ err' = r.err
    /\ oob' = r.oob
    /\ call' = Called(op, a, rc)
    /\ buf' = NoBuffer

\* fru_enable_area(fru, a, p)
EnableResult(a, r) ==
    /\ Reordered("enable", a, r.rc, r)
    /\ errsrc' = EnableSrc(a, r, errsrc)
    /\ UNCHANGED <<datavars, codecvars>>

EnableCall(as, ps) ==
    \E a \in as, p \in ps :
        /\ Alive
        /\ EnableResult(a, EnableArea(order, present, err, a, p))

\* fru_disable_area(fru, a)
DisableResult(a, r) ==
    /\ order' = r.order
    /\ present' = r.present
    /\ err' = r.err
    /\ oob' = r.oob
    /\ errsrc' = DisableSrc(present, a, r, errsrc)
    /\ call' = Called("disable", a, r.rc)
    /\ buf' = NoBuffer
    /\ UNCHANGED <<datavars, codecvars>>

DisableCall(as) ==
    \E a \in as :
        /\ Alive
        /\ DisableResult(a, DisableArea(order, present, err, a))

\* fru_move_area(fru, a, p)
MoveResult(a, r) ==
    /\ Reordered("move", a, r.rc, r)
    /\ UNCHANGED <<datavars, codecvars>>

MoveCall(as, ps) ==
    \E a \in as, p \in ps :
        /\ Alive
        /\ MoveResult(a, MoveArea(order, present, err, a, p))
        /\ errsrc' = MoveSrc(order, present, a, p)

Enable == EnableCall(Areas, PosArgs) /\ UNCHANGED cur
Disable == DisableCall(Areas) /\ UNCHANGED cur
Move == MoveCall(Areas, PosArgs) /\ UNCHANGED cur

NextOrder == Enable \/ Disable \/ Move

SpecOrder == Init /\ [][NextOrder]_vars

(***************************************************************************)
(* Record lists: fru__find_reclist_entry(), fru__add_reclist_entry(),      *)
(* delete_reclist_entry()                                                  *)
(***************************************************************************)
\* A list insertion that always appends
InsertAtTail(list, index, x) == Append(list, x)

\* Insert x before the entry at 0-based index, append when there is none
InsertAt(list, index, x) ==
    LET k == IF index > Len(list) THEN Len(list) ELSE index
    IN  SubSeq(list, 1, k) \o <<x>> \o SubSeq(list, k + 1, Len(list))

\* Remove the entry at 0-based index (index < Len(list))
RemoveAt(list, index) ==
    SubSeq(list, 1, index) \o SubSeq(list, index + 2, Len(list))

(***************************************************************************)
(* Actions: fields and custom fields                                       *)
(***************************************************************************)
\* fru_errno.src after the call op on area a failed with code e.
\* fru_getfield() stores the code alone; fru_add_custom() blames a bad
\* area tag on the library, the other calls on the caller; every other
\* failure is blamed on the area.
FailSrc(op, a, e) ==
    IF op = "get_field" THEN errsrc
    ELSE IF e \in {FEAREABADTYPE, FEAREANOTSUP}
      THEN (IF op = "add_custom" THEN FERR_LOC_GENERAL ELSE FERR_LOC_CALLER)
    ELSE a

\* A call that fails with error code e and changes nothing else
Fails(op, a, e) ==
    /\ err' = e
    /\ errsrc' = FailSrc(op, a, e)
    /\ call' = Called(op, a, FALSE)
    /\ oob' = FALSE
    /\ buf' = NoBuffer
    /\ UNCHANGED <<ordervars, datavars, codecvars>>

\* A call that only reads the instance and succeeds
Reads(op, a, e) ==
    /\ err' = e
    /\ UNCHANGED errsrc
    /\ call' = Called(op, a, TRUE)
    /\ oob' = FALSE
    /\ buf' = NoBuffer
    /\ UNCHANGED <<ordervars, datavars, codecvars>>

\* fru_getfield(fru, atype, index)
GetFieldCall(as, idxs) ==
    \E a \in as, index \in idxs :
        /\ Alive
        /\ IF ~FRU_IS_VALID_AREA(a) THEN Fails("get_field", a, FEAREABADTYPE)
           ELSE IF ~FRU_IS_INFO_AREA(a) THEN Fails("get_field", a, FEAREANOTSUP)
           ELSE IF ~present[a] THEN Fails("get_field", a, FEADISABLED)
           ELSE IF index >= fru__fieldcount(a) THEN Fails("get_field", a, FENOFIELD)
           ELSE Reads("get_field", a, err)

\* fru_get_custom(fru, atype, index)
GetCustomCall(as, idxs) ==
    \E a \in as, index \in idxs :
        /\ Alive
        /\ IF ~FRU_IS_VALID_AREA(a) THEN Fails("get_custom", a, FEAREABADTYPE)
           ELSE IF ~FRU_IS_INFO_AREA(a) THEN Fails("get_custom", a, FEAREANOTSUP)
           ELSE IF ~present[a] THEN Fails("get_custom", a, FEADISABLED)
           ELSE IF index >= Len(cust[a]) THEN Fails("get_custom", a, FENOFIELD)
           ELSE Reads("get_custom", a, err)

\* fru_delete_custom(fru, atype, index)
DeleteCustomCall(as, idxs) ==
    \E a \in as, index \in idxs :
        /\ Alive
        /\ IF ~FRU_IS_VALID_AREA(a) THEN Fails("delete_custom", a, FEAREABADTYPE)
           ELSE IF ~FRU_IS_INFO_AREA(a) THEN Fails("delete_custom", a, FEAREANOTSUP)
           ELSE IF index >= Len(cust[a]) THEN Fails("delete_custom", a, FENOFIELD)
           ELSE /\ cust' = [cust EXCEPT ![a] = RemoveAt(@, index)]
                /\ call' = Called("delete_custom", a, TRUE)
                /\ oob' = FALSE
                /\ buf' = NoBuffer
                /\ UNCHANGED <<ordervars, internal, fields, langtype, tv, mr, err, errsrc,
                               codecvars>>

\* The rest of fru_add_custom() once the string went through fru_setfield()
\* with result sf: the new list entry, then fru_enable_area(Auto) whose
\* return value is ignored
AddCustomField(a, index, maxlen, sf) ==
    IF ~sf.ok THEN Fails("add_custom", a, sf.err)
    ELSE /\ Len(cust[a]) < maxlen
         /\ cust' = [cust EXCEPT ![a] = InsertAt(@, index, sf.field)]
         /\ Reordered("add_custom", a, TRUE,
                      EnableArea(order, present, sf.err, a, FRU_APOS_AUTO))
         /\ errsrc' = EnableSrc(a, EnableArea(order, present, sf.err, a, FRU_APOS_AUTO),
                                sf.src)
         /\ UNCHANGED <<internal, fields, langtype, tv, mr, codecvars>>

\* fru_setfield() with what it leaves in fru_errno.src, s being the source
\* before
SetField(field, encoding, str, e, s) ==
    [ok |-> fru_setfield(field, encoding, str, e).ok,
     err |-> fru_setfield(field, encoding, str, e).err,
     src |-> GeneralSrc(fru_setfield(field, encoding, str, Untouched).err, s),
     field |-> fru_setfield(field, encoding, str, e).field]

\* fru_add_custom(fru, atype, index, encoding, string); maxlen bounds the
\* length of the list
AddCustomCall(as, idxs, args, maxlen) ==
    \E a \in as, index \in idxs, arg \in args :
        /\ Alive
        /\ IF ~FRU_IS_VALID_AREA(a) THEN Fails("add_custom", a, FEAREABADTYPE)
           ELSE IF ~FRU_IS_INFO_AREA(a) THEN Fails("add_custom", a, FEAREANOTSUP)
           ELSE AddCustomField(a, index, maxlen,
                               IF arg.enc = "EMPTY"
                               THEN [ok |-> TRUE, err |-> err, src |-> errsrc,
                                     field |-> ZeroField]
                               ELSE SetField(ZeroField, arg.enc, arg.val, err, errsrc))

(***************************************************************************)
(* Actions: the multirecord list, fru_add_mr.c and fru_mr_ops.c            *)
(***************************************************************************)
\* Record types a search may name: a parsed type, raw, or any
MrSearchTypes == {"MGMT", "RAW", "ANY"}

\* The 0-based position mr_operation() stops at, -1 when the loop runs out
MrLocate(mrl, type, index) ==
    LET hit(count) == \/ (type = "ANY" /\ count = index)
                      \/ (count >= index /\ type = mrl[count + 1].type)
    IN  IF \E c \in 0..(Len(mrl) - 1) : hit(c)
        THEN CHOOSE c \in 0..(Len(mrl) - 1) : hit(c) /\ \A d \in 0..(c - 1) : ~hit(d)
        ELSE -1

\* mr_operation(fru, op, rec, type, &index) with error code e: the return
\* value, the error code, the list, the MR presence flag and *index after
\* the call.  rec is NoRec for a NULL record pointer.
NoRec == [type |-> "NULL"]
\* The error code that tells nothing about the end of the list
MrEndErrKept(mrl, count, e) == e
\* The error code after the entry at position count was found: FEMREND is
\* registered when the entry has no successor
MrEndErr(mrl, count, e) == IF count = Len(mrl) - 1 THEN FEMREND ELSE e
mr_operation(mrl, pres, e, op, rec, type, index) ==
    LET count == MrLocate(mrl, type, index)
        e1 == MrEndErr(mrl, count, e)
        same(rc, ee) == [rc |-> rc, err |-> ee, mr |-> mrl, present |-> pres, index |-> index]
    IN  IF ~pres[FRU_MR] THEN same(FALSE, FEADISABLED)
        ELSE IF type \notin MrSearchTypes THEN same(FALSE, FEMRNOTSUP)
        ELSE IF count < 0 THEN same(FALSE, FENOREC)
        ELSE IF op = "MR_OP_FIND"
          THEN [rc |-> TRUE, err |-> e1, mr |-> mrl, present |-> pres, index |-> count]
        ELSE IF rec # NoRec
          THEN [rc |-> TRUE, err |-> e1, mr |-> [mrl EXCEPT ![count + 1] = rec],
                present |-> pres, index |-> index]
        ELSE [rc |-> TRUE, err |-> e1, mr |-> RemoveAt(mrl, count),
              present |-> [pres EXCEPT ![FRU_MR] = Len(mrl) > 1],
              index |-> index]

\* fru_errno.src after mr_operation() on the list mrl came to r: a failure
\* is blamed on the caller, a missing record and the end of the list on
\* the MR area
MrSrc(mrl, r, s) ==
    IF ~r.rc THEN (IF r.err = FENOREC THEN FERR_LOC_MR ELSE FERR_LOC_CALLER)
    ELSE IF r.index = Len(mrl) - 1 THEN FERR_LOC_MR
    ELSE s

\* The effect of a call that went through mr_operation()
MrCalled(op, r) ==
    /\ mr' = r.mr
    /\ present' = r.present
    /\ err' = r.err
    /\ errsrc' = MrSrc(mr, r, errsrc)
    /\ call' = Called(op, FRU_MR, r.rc)
    /\ oob' = FALSE
    /\ buf' = NoBuffer
    /\ UNCHANGED <<order, internal, fields, langtype, tv, cust, codecvars>>

\* fru_add_mr(fru, index, rec); maxlen bounds the length of the list
AddMrCall(idxs, recs, maxlen) ==
    \E index \in idxs, rec \in recs :
        /\ Alive
        /\ Len(mr) < maxlen
        /\ mr' = InsertAt(mr, index, rec)
        /\ present' = [present EXCEPT ![FRU_MR] = TRUE]
        /\ call' = Called("add_mr", FRU_MR, TRUE)
        /\ oob' = FALSE
        /\ buf' = NoBuffer
        /\ UNCHANGED <<order, internal, fields, langtype, tv, cust, err, errsrc, codecvars>>

\* fru_delete_mr(fru, index)
DeleteMrCall(idxs) ==
    \E index \in idxs :
        /\ Alive
        /\ MrCalled("delete_mr",
                    mr_operation(mr, present, err, "MR_OP_REPLACE", NoRec, "ANY", index))

\* fru_replace_mr(fru, index, rec)
ReplaceMrCall(idxs, recs) ==
    \E index \in idxs, rec \in recs :
        /\ Alive
        /\ MrCalled("replace_mr",
                    mr_operation(mr, present, err, "MR_OP_REPLACE", rec, "ANY", index))

\* fru_find_mr(fru, type, &index)
FindMrCall(types, idxs) ==
    \E type \in types, index \in idxs :
        /\ Alive
        /\ MrCalled("find_mr",
                    mr_operation(mr, present, err, "MR_OP_FIND", NoRec, type, index))

\* fru_get_mr(fru, index)
GetMrCall(idxs) ==
    \E index \in idxs :
        /\ Alive
        /\ MrCalled("get_mr",
                    mr_operation(mr, present, err, "MR_OP_FIND", NoRec, "ANY", index))

(***************************************************************************)
(* fru_wipe(), fru_common.c                                                *)
(***************************************************************************)
\* The instance after fru_wipe(): the lists and the internal use string are
\* freed and every byte of fru_t is set to zero
Wiped ==
    [present |-> [a \in Areas |-> FALSE],
     order |-> [i \in Slots |-> 0],
     internal |-> NoString,
     fields |-> [a \in InfoAreas |-> [i \in 1..fru__fieldcount(a) |-> ZeroField]],
     langtype |-> [a \in InfoAreas |-> 0],
     tv |-> [auto |-> FALSE, sec |-> 0],
     cust |-> [a \in InfoAreas |-> <<>>],
     mr |-> <<>>]

\* The instance after fru_init(): zeroed, the date of the board taken from
\* the clock at save time, the default chassis type, the default order
Inited ==
    [Wiped EXCEPT !.order = [i \in Slots |-> i],
                  !.langtype[FRU_CHASSIS_INFO] = FRU__DEFAULT_CHASSIS_TYPE,
                  !.tv.auto = TRUE]

\* fru_init(fru) on the instance the caller holds
InitCall ==
    /\ Alive
    /\ present' = Inited.present
    /\ order' = Inited.order
    /\ internal' = Inited.internal
    /\ fields' = Inited.fields
    /\ langtype' = Inited.langtype
    /\ tv' = Inited.tv
    /\ cust' = Inited.cust
    /\ mr' = Inited.mr
    /\ call' = Called("init", -1, TRUE)
    /\ UNCHANGED <<err, errsrc, oob, buf, codecvars>>

\* fru_clearerr(): the error status is cleared
ClearErrCall ==
    /\ Alive
    /\ err' = FENONE
    /\ errsrc' = FERR_LOC_INTERNAL
    /\ call' = Called("clearerr", -1, TRUE)
    /\ UNCHANGED <<ordervars, datavars, oob, buf, codecvars>>

\* fru_wipe(fru)
WipeCall ==
    /\ Alive
    /\ present' = Wiped.present
    /\ order' = Wiped.order
    /\ internal' = Wiped.internal
    /\ fields' = Wiped.fields
    /\ langtype' = Wiped.langtype
    /\ tv' = Wiped.tv
    /\ cust' = Wiped.cust
    /\ mr' = Wiped.mr
    /\ call' = Called("wipe", -1, TRUE)
    /\ UNCHANGED <<err, errsrc, oob, buf, codecvars>>

(***************************************************************************)
(* Actions: the internal use area, fru_internal.c                          *)
(***************************************************************************)
IsInternalSeparator(c) == c \in {32, 45, 58, 46}

\* The characters hexcopy() copies: everything but the separators
RECURSIVE StripSeparators(_)
StripSeparators(s) ==
    IF s = <<>> THEN <<>>
    ELSE IF IsInternalSeparator(Head(s)) THEN StripSeparators(Tail(s))
    ELSE <<Head(s)>> \o StripSeparators(Tail(s))

\* hexcopy() stores no terminating NUL: the string read back from the
\* reallocated block ends where the block happens to hold a zero byte.
\* The block is either zero there, or still holds the tail of the string
\* it held before.
Unterminated(old, new) ==
    {new} \cup (IF old # NoString /\ Len(old) > Len(new)
                THEN {new \o SubSeq(old, Len(new) + 1, Len(old))}
                ELSE {})

\* The effect of storing the internal use string and enabling the area;
\* e and s are fru_errno's code and source when the string is stored
InternalStored(op, strs, e, s) ==
    /\ internal' \in strs
    /\ Reordered(op, FRU_INTERNAL_USE, TRUE,
                 EnableArea(order, present, e, FRU_INTERNAL_USE, FRU_APOS_AUTO))
    /\ errsrc' = EnableSrc(FRU_INTERNAL_USE,
                           EnableArea(order, present, e, FRU_INTERNAL_USE, FRU_APOS_AUTO),
                           s)
    /\ UNCHANGED <<fields, langtype, tv, cust, mr, codecvars>>

\* fru_set_internal_hexstring(fru, hexstr)
SetInternalHexCall(strs) ==
    \E s \in strs :
        /\ Alive
        /\ IF \E i \in 1..Len(s) : ~IsXDigit(s[i]) /\ ~IsInternalSeparator(s[i])
           THEN Fails("set_internal_hexstring", FRU_INTERNAL_USE, FENONHEX)
           ELSE InternalStored("set_internal_hexstring",
                               Unterminated(internal, StripSeparators(s)),
                               IF Len(StripSeparators(s)) % 2 = 1 THEN FENOTEVEN ELSE err,
                               IF Len(StripSeparators(s)) % 2 = 1
                               THEN FERR_LOC_INTERNAL ELSE errsrc)

\* fru_set_internal_binary(fru, buffer, size)
SetInternalBinaryCall(blobs) ==
    \E b \in blobs :
        /\ Alive
        /\ InternalStored("set_internal_binary",
                          IF Len(b) = 0 THEN Unterminated(internal, <<>>)
                          ELSE {fru__decode_raw_binary(b)},
                          err, errsrc)

\* fru_delete_internal(fru)
DeleteInternalCall ==
    /\ Alive
    /\ IF ~present[FRU_INTERNAL_USE]
       THEN Fails("delete_internal", FRU_INTERNAL_USE, FEADISABLED)
       ELSE /\ present' = [present EXCEPT ![FRU_INTERNAL_USE] = FALSE]
            /\ internal' = NoString
            /\ call' = Called("delete_internal", FRU_INTERNAL_USE, TRUE)
            /\ oob' = FALSE
            /\ buf' = NoBuffer
            /\ UNCHANGED <<order, fields, langtype, tv, cust, mr, err, errsrc, codecvars>>

(***************************************************************************)
(* Multirecord records (fru_mr_rec_t)                                      *)
(***************************************************************************)
\* A Management Access record: subtype and text (or UUID) data
MgmtRec(subtype, data) ==
    [type |-> "MGMT", subtype |-> subtype, rtype |-> 0, enc |-> "TEXT", data |-> data]
\* A raw record: record type byte, encoding of the data, data string
RawRec(rtype, e, data) ==
    [type |-> "RAW", subtype |-> 0, rtype |-> rtype, enc |-> e, data |-> data]

(***************************************************************************)
(* The instance API: every mutating call                                   *)
(***************************************************************************)
\* The longest custom list and multirecord list the clients build
MaxCust == 1
MaxMr == 1
\* The areas this client works with; the other two stay as fru_init() left them
AreaUsed == {FRU_INTERNAL_USE, FRU_CHASSIS_INFO, FRU_MR}
AreaPositions == {FRU_APOS_AUTO, FRU_APOS_FIRST, FRU_APOS_LAST} \cup AreaUsed
AreaIndexes == {0, 1}
AreaCustomArgs == {[enc |-> "TEXT", val |-> <<65, 66>>]}
AreaMrRecs == {RawRec(1, "BINARY", <<48, 49>>)}
AreaHexStrings == {<<48, 65>>}
AreaBlobs == {<<10>>}

AreaEnable == EnableCall(AreaUsed, AreaPositions) /\ UNCHANGED cur
AreaDisable == DisableCall(AreaUsed) /\ UNCHANGED cur
AreaMove == MoveCall(AreaUsed, AreaPositions) /\ UNCHANGED cur
AreaAddCustom == AddCustomCall(AreaUsed, AreaIndexes, AreaCustomArgs, MaxCust) /\ UNCHANGED cur
AreaDeleteCustom == DeleteCustomCall(AreaUsed, AreaIndexes) /\ UNCHANGED cur
AreaAddMr == AddMrCall(AreaIndexes, AreaMrRecs, MaxMr) /\ UNCHANGED cur
AreaReplaceMr == ReplaceMrCall(AreaIndexes, AreaMrRecs) /\ UNCHANGED cur
AreaDeleteMr == DeleteMrCall(AreaIndexes) /\ UNCHANGED cur
AreaSetInternalHex == SetInternalHexCall(AreaHexStrings) /\ UNCHANGED cur
AreaSetInternalBinary == SetInternalBinaryCall(AreaBlobs) /\ UNCHANGED cur
AreaDeleteInternal == DeleteInternalCall /\ UNCHANGED cur
AreaGetField == GetFieldCall(AreaUsed, AreaIndexes) /\ UNCHANGED cur
AreaGetCustom == GetCustomCall(AreaUsed, AreaIndexes) /\ UNCHANGED cur
AreaFindMr == FindMrCall({"RAW"}, AreaIndexes) /\ UNCHANGED cur
AreaGetMr == GetMrCall(AreaIndexes) /\ UNCHANGED cur

NextArea ==
    \/ AreaEnable \/ AreaDisable \/ AreaMove
    \/ AreaAddCustom \/ AreaDeleteCustom
    \/ AreaAddMr \/ AreaReplaceMr \/ AreaDeleteMr
    \/ AreaSetInternalHex \/ AreaSetInternalBinary \/ AreaDeleteInternal
    \/ AreaGetField \/ AreaGetCustom \/ AreaFindMr \/ AreaGetMr

SpecArea == Init /\ [][NextArea]_vars

(***************************************************************************)
(* The field codec on its own: a field is encoded, then decoded back       *)
(***************************************************************************)
\* The longest input string
MaxLen == 3
\* Characters of the inputs: space, dash, two digits, a hex letter, a
\* letter that is no hex digit, a lower-case hex letter
CodecChars == {32, 45, 48, 49, 65, 71, 97}
\* The strings "IPMI", "12-34", "DEADBEEF" and "Hello, world"
StrIPMI == <<73, 80, 77, 73>>
StrSerial == <<49, 50, 45, 51, 52>>
StrHex == <<68, 69, 65, 68, 66, 69, 69, 70>>
StrHello == <<72, 101, 108, 108, 111, 44, 32, 119, 111, 114, 108, 100>>
CodecExamples == {StrIPMI, StrSerial, StrHex, StrHello}
CodecStrings == UNION {[1..n -> CodecChars] : n \in 0..MaxLen} \cup CodecExamples
CodecEncodings == RealEncs \cup {"AUTO"}

InitCodec ==
    /\ InitFru
    /\ fld \in [enc : CodecEncodings, val : CodecStrings]
    /\ enc = NoEncoded
    /\ dec = NoField

\* fru__encode_field(&enc, fld.enc, fld.val) after fru_clearerr()
Encoded(r) ==
    /\ enc' = r
    /\ err' = r.err
    /\ errsrc' = GeneralSrc(r.err, errsrc)
    /\ call' = Called("encode_field", -1, r.ok)
    /\ UNCHANGED <<ordervars, datavars, oob, fld, dec, buf>>

EncodeField ==
    /\ UNCHANGED cur
    /\ enc = NoEncoded
    /\ Encoded(fru__encode_field(fld.enc, fld.val, FENONE))

\* fru__decode_field(&dec, &enc) on a field that was encoded
DecodeField ==
    /\ UNCHANGED cur
    /\ enc.ok
    /\ dec = NoField
    /\ dec' = fru__decode_field(enc.typelen, enc.data)
    /\ call' = Called("decode_field", -1, TRUE)
    /\ UNCHANGED <<ordervars, datavars, err, errsrc, oob, fld, enc, buf>>

NextCodec == EncodeField \/ DecodeField

SpecCodec == InitCodec /\ [][NextCodec]_vars

(***************************************************************************)
(* The binary file: blocks and checksums, fru-private.h and fru_common.c   *)
(***************************************************************************)
FRU__BLOCK_SZ == 8
FRU__BYTES(blocks) == blocks * FRU__BLOCK_SZ
FRU__BLOCKS(bytes) == (bytes + FRU__BLOCK_SZ - 1) \div FRU__BLOCK_SZ
FRU__BLOCK_ALIGN(size) == FRU__BYTES(FRU__BLOCKS(size))
FRU__VER == 1
FRU__MR_EOL == 128
FRU__MR_VER == 2
FRU__UUID_SIZE == 16
FRU__UUID_STRLEN_NONDASHED == FRU__UUID_SIZE * 2
FRU__UUID_STRLEN_DASHED == FRU__UUID_STRLEN_NONDASHED + 4
\* sizeof(fru__file_t): version, five area offsets, pad, checksum
FRU__FILE_HEADER_SZ == 8
\* sizeof(fru__file_mr_header_t): type, eol/version, length, two checksums
FRU__FILE_MR_HEADER_SZ == 5

\* A value stored into a uint8_t
Byte(x) == x % 256
Zeros(n) == [i \in 1..n |-> 0]

\* The sum of the bytes d[lo..hi] (1-based, inclusive)
RECURSIVE SumBytes(_, _, _)
SumBytes(d, lo, hi) ==
    IF lo > hi THEN 0
    ELSE IF lo = hi THEN d[lo]
    ELSE SumBytes(d, lo, (lo + hi) \div 2) + SumBytes(d, (lo + hi) \div 2 + 1, hi)

\* fru__calc_checksum(buf, size) over bytes d: the negated sum as a byte
fru__calc_checksum(d) == Byte(256 - Byte(SumBytes(d, 1, Len(d))))

(***************************************************************************)
(* fru_save.c: multirecord encoders.  An encoder yields ok, the error code *)
(* it leaves, crash (the process faults) and the bytes it writes.          *)
(***************************************************************************)
Wrote(e, data) == [ok |-> TRUE, err |-> e, crash |-> FALSE, data |-> data]
Refused(e) == [ok |-> FALSE, err |-> e, crash |-> FALSE, data |-> <<>>]
Faulted == [ok |-> FALSE, err |-> FENONE, crash |-> TRUE, data |-> <<>>]

\* Record type bytes and the Management Access subtypes
FRU_MR_MGMT_ACCESS == 3
FRU_MR_MGMT_MIN == 1
FRU_MR_MGMT_SYS_UUID == 7
FRU_MR_MGMT_MAX == 7
FRU_MR_MGMT_IS_SUBTYPE_VALID(t) == t >= FRU_MR_MGMT_MIN /\ t <= FRU_MR_MGMT_MAX
\* Table 18-6: subtypes 1..7 are system URL, name, ping address, component
\* URL, name, ping address, system UUID
fru__mr_mgmt_minlen == <<16, 8, 8, 16, 8, 8, 16>>
fru__mr_mgmt_maxlen == <<256, 64, 64, 256, 256, 64, 16>>
FRU__FILE_MRR_MAXDATA == 255
FRU__FILE_MR_MGMT_MAXDATA == 254

\* mr_blob2rec(): header and data of a record, the header checksum still 0
mr_blob2rec(e, blob, type) ==
    IF Len(blob) > FRU__FILE_MRR_MAXDATA THEN Refused(FE2BIG)
    ELSE Wrote(e, <<type, FRU__MR_VER, Len(blob), fru__calc_checksum(blob), 0>> \o blob)

\* mgmt_blob2rec(): the blob behind its subtype byte
mgmt_blob2rec(e, blob, subtype) ==
    IF \/ fru__mr_mgmt_minlen[subtype] > Len(blob)
       \/ Len(blob) > fru__mr_mgmt_maxlen[subtype]
       \/ Len(blob) > FRU__FILE_MR_MGMT_MAXDATA
    THEN Refused(FESIZE)
    ELSE mr_blob2rec(e, <<subtype>> \o blob, FRU_MR_MGMT_ACCESS)

\* The UUID as fru__hexstr2bin() left it, big-endian
UuidKept(raw) == raw

\* The first three fields of the UUID turned little-endian
UuidSwapped(raw) ==
    <<raw[4], raw[3], raw[2], raw[1], raw[6], raw[5], raw[8], raw[7]>>
        \o SubSeq(raw, 9, FRU__UUID_SIZE)

\* uuid2rec(): r is the result of fru__hexstr2bin() on the string, limited
\* to 16 bytes.  A string with fewer than 32 hex digits would leave the
\* rest of the local uuid uninitialised; the strings saved here hold 32,
\* so Take() pads nothing.
UuidRecord(r) ==
    IF ~r.ok THEN Refused(r.err)
    ELSE mgmt_blob2rec(r.err, UuidSwapped(Take(r.data, FRU__UUID_SIZE)), FRU_MR_MGMT_SYS_UUID)

uuid2rec(e, str) ==
    IF Len(str) # FRU__UUID_STRLEN_DASHED /\ Len(str) # FRU__UUID_STRLEN_NONDASHED
    THEN Refused(FESIZE)
    ELSE UuidRecord(fru__hexstr2bin(str, FALSE, FRU__UUID_SIZE, e))

encode_mr_mgmt_record(e, rec) ==
    IF ~FRU_MR_MGMT_IS_SUBTYPE_VALID(rec.subtype) THEN Refused(FEMRMGMTBAD)
    ELSE IF rec.subtype = FRU_MR_MGMT_SYS_UUID THEN uuid2rec(e, rec.data)
    ELSE mgmt_blob2rec(e, rec.data, rec.subtype)

\* encode_mr_raw_record() on binary data: r is the result of
\* fru__hexstr2bin() on the hex string
RawRecord(rtype, r) ==
    IF ~r.ok THEN Refused(r.err)
    ELSE Wrote(r.err, <<rtype, FRU__MR_VER, Byte(Len(r.data)),
                        fru__calc_checksum(SubSeq(r.data, 1, Byte(Len(r.data)))), 0>>
                       \o r.data)

\* encode_mr_raw_record(): text data is copied behind the output pointer,
\* which is NULL in the sizing pass
encode_mr_raw_record(e, rec) ==
    IF rec.enc = "TEXT"
    THEN (IF Len(rec.data) > 0 THEN Faulted
          ELSE Wrote(e, <<rec.rtype, FRU__MR_VER, 0, 0, 0>>))
    ELSE RawRecord(rec.rtype, fru__hexstr2bin(rec.data, FALSE, 0, e))

\* The eol/version byte of a record header
MrEolVerAlways(last) == FRU__MR_VER + FRU__MR_EOL
MrEolVer(last) == IF last THEN FRU__MR_VER + FRU__MR_EOL ELSE FRU__MR_VER

\* The end of encode_mr_record(): the end-of-list flag, the header checksum
MrSealed(d, last) ==
    Poke(Poke(d, 1, MrEolVer(last)), 4,
         fru__calc_checksum(SubSeq(Poke(d, 1, MrEolVer(last)), 1, FRU__FILE_MR_HEADER_SZ - 1)))

MrFinished(r, last) == IF r.ok THEN [r EXCEPT !.data = MrSealed(r.data, last)] ELSE r

encode_mr_record(e, rec, last) ==
    IF rec.type = "MGMT" THEN MrFinished(encode_mr_mgmt_record(e, rec), last)
    ELSE IF rec.type = "RAW" THEN MrFinished(encode_mr_raw_record(e, rec), last)
    ELSE Refused(FEMRNOTSUP)

\* The loop of encode_mr_area() from the record at 1-based index i on
RECURSIVE MrRecords(_, _, _, _)
MrAppended(mrl, i, out, r) ==
    IF ~r.ok THEN r ELSE MrRecords(mrl, i + 1, r.err, out \o r.data)
MrRecords(mrl, i, e, out) ==
    IF i > Len(mrl) THEN Wrote(e, out)
    ELSE MrAppended(mrl, i, out, encode_mr_record(e, mrl[i], i = Len(mrl)))

\* The area padded to whole blocks; the buffer is zero where nothing is written
BlockPadded(r) ==
    IF ~r.ok THEN r
    ELSE [r EXCEPT !.data = Take(r.data, FRU__BLOCK_ALIGN(Len(r.data)))]

\* encode_mr_area() without the check for an empty list
encode_mr_area_unchecked(e, mrl) ==
    BlockPadded(MrRecords(mrl, 1, e, <<>>))

encode_mr_area(e, mrl) ==
    IF Len(mrl) = 0 THEN Refused(FENOREC)
    ELSE BlockPadded(MrRecords(mrl, 1, e, <<>>))

(***************************************************************************)
(* fru_save.c: the internal use area and the info areas                    *)
(***************************************************************************)
\* encode_iu_area() once fru__hexstr2bin() gave r: the version byte, the
\* data, zeros up to the block boundary.  The memset() that clears the
\* tail starts one byte late and ends one byte behind the area.
InternalArea(r) ==
    IF ~r.ok THEN Refused(r.err)
    ELSE Wrote(r.err, Take(<<FRU__VER>> \o r.data, FRU__BLOCK_ALIGN(Len(r.data) + 1)))

\* encode_iu_area(): an enabled area without data leaves fru->internal
\* NULL, and fru__hexstr2bin() reads through it
encode_iu_area(e) ==
    IF internal = NoString THEN Faulted
    ELSE InternalArea(fru__hexstr2bin(internal, FALSE, 0, e))

FRU__FIELDSIZE(typelen) == FRU__FIELDLEN(typelen) + 1
FRU__INFO_AREA_HEADER_SZ == 3
FRU__AREA_HAS_DATE(t) == t = FRU_BOARD_INFO
FRU__DATE_UNSPECIFIED == 0
\* mktime() of 1 January 1996, the process running in UTC
fru__datetime_base == 820454400
FRU_DATETIME_MAX == 16777215 * 60 + fru__datetime_base

\* add_field_to_area() for the fields fs from 1-based index i on: each is
\* encoded after fru_clearerr() and copied behind the bytes in out
RECURSIVE AddFields(_, _, _, _)
FieldAdded(fs, i, out, r) ==
    IF ~r.ok THEN Refused(r.err)
    ELSE AddFields(fs, i + 1, r.err,
                   out \o <<r.typelen>> \o Take(r.data, FRU__FIELDSIZE(r.typelen) - 1))
AddFields(fs, i, e, out) ==
    IF i > Len(fs) THEN Wrote(e, out)
    ELSE FieldAdded(fs, i, out, fru__encode_field(fs[i].enc, fs[i].val, FENONE))

\* The manufacturing date: minutes since the base, three bytes little-endian
MfgMinutes(sec) ==
    IF sec = 0 THEN FRU__DATE_UNSPECIFIED ELSE (sec - fru__datetime_base) \div 60
MfgDate(sec) ==
    <<Byte(MfgMinutes(sec)), Byte(MfgMinutes(sec) \div 256), Byte(MfgMinutes(sec) \div 65536)>>

\* An area rounded up to whole blocks without the byte of the checksum
InfoPaddedTight(b) ==
    Poke(b \o <<FRU__FIELD_TERMINATOR>>
           \o Zeros(FRU__BLOCK_ALIGN(Len(b) + 1) - (Len(b) + 1)),
         1, Byte(FRU__BLOCKS(Len(b) + 1)))
\* The end of encode_info_area() on the header and fields in b: the
\* terminator, the padding, the size in blocks stored into a byte, and the
\* checksum in the last byte of the padding
\* (Checksummed stores the checksum of d into its last byte)
InfoPadded(b) ==
    Poke(b \o <<FRU__FIELD_TERMINATOR>>
           \o Zeros(FRU__BLOCK_ALIGN(Len(b) + 2) - (Len(b) + 1)),
         1, Byte(FRU__BLOCKS(Len(b) + 2)))
Checksummed(d) == Poke(d, Len(d) - 1, fru__calc_checksum(d))
InfoSealed(r) ==
    IF ~r.ok THEN r ELSE [r EXCEPT !.data = Checksummed(InfoPadded(r.data))]

\* encode_info_area() behind the header: the mandatory, then the custom fields
InfoFields(atype, e, head) ==
    InfoSealed(AddFields(fields[atype] \o cust[atype], 1, e, head))

\* encode_info_area(); now is what gettimeofday() returns
encode_info_area(atype, e, now) ==
    IF ~FRU__AREA_HAS_DATE(atype)
      THEN InfoFields(atype, e, <<FRU__VER, 0, langtype[atype]>>)
    ELSE IF ~tv.auto /\ tv.sec < fru__datetime_base THEN Refused(FEBDATE)
    ELSE IF (IF tv.auto THEN now ELSE tv.sec) > FRU_DATETIME_MAX THEN Refused(FEBDATE)
    ELSE InfoFields(atype, e, <<FRU__VER, 0, langtype[atype]>>
                              \o MfgDate(IF tv.auto THEN now ELSE tv.sec))

(***************************************************************************)
(* fru_save.c: create_frufile() and fru_savebuffer()                       *)
(***************************************************************************)
encode_area(type, e, now) ==
    IF type = FRU_INTERNAL_USE THEN encode_iu_area(e)
    ELSE IF type = FRU_MR THEN encode_mr_area(e, mr)
    ELSE encode_info_area(type, e, now)

\* What create_frufile() has when it starts: no area written, every offset
\* byte of the header zero
NoAreas(e) ==
    [ok |-> TRUE, crash |-> FALSE, err |-> e, src |-> errsrc, data |-> <<>>,
     offs |-> [a \in Areas |-> 0], at |-> [a \in Areas |-> -1],
     seen |-> {}, spill |-> FALSE]

\* fru_errno.src after the encoder of the area type came to r, e and s
\* being code and source before.  A failing encoder names its area.  The
\* info areas clear fru_errno before every field, so their last field
\* decides; the other two leave it alone unless a conversion truncated.
AreaSrc(type, r, e, s) ==
    IF ~r.ok THEN type
    ELSE IF FRU_IS_INFO_AREA(type) THEN GeneralSrc(r.err, s)
    ELSE IF r.err = e THEN s
    ELSE FERR_LOC_GENERAL

\* The offset byte of an area that starts at byte position pos of the file
OffsetByte(pos) == Byte(FRU__BLOCKS(pos))

\* The loop of create_frufile() from slot index on.  acc holds the area
\* bytes so far, the offset bytes of the header, the position each area
\* was put at, the tags seen, and whether the latest area wrote one byte
\* behind itself.  Both passes of fru_savebuffer() take the same path, the
\* sizing pass without storing.
RECURSIVE FileAreas(_, _, _)
AreaPlaced(acc, index, now, type, r) ==
    IF ~r.ok THEN [acc EXCEPT !.ok = FALSE, !.crash = r.crash, !.err = r.err,
                              !.src = AreaSrc(type, r, acc.err, acc.src)]
    ELSE FileAreas([acc EXCEPT !.err = r.err,
                               !.src = AreaSrc(type, r, acc.err, acc.src),
                               !.data = acc.data \o r.data,
                               !.offs[type] = OffsetByte(FRU__FILE_HEADER_SZ + Len(acc.data)),
                               !.at[type] = FRU__FILE_HEADER_SZ + Len(acc.data),
                               !.seen = acc.seen \cup {type},
                               !.spill = (type = FRU_INTERNAL_USE)],
                   index + 1, now)
FileAreas(acc, index, now) ==
    IF index > FRU_MAX_AREA THEN acc
    ELSE IF order[index] \in acc.seen
      THEN [acc EXCEPT !.ok = FALSE, !.err = FEAREADUP, !.src = order[index]]
    ELSE IF ~present[order[index]]
      THEN FileAreas([acc EXCEPT !.seen = acc.seen \cup {order[index]}], index + 1, now)
    ELSE AreaPlaced(acc, index, now, order[index],
                    encode_area(order[index], acc.err, now))

\* The file header: version, the five offsets, pad, checksum
FileHeader(offs) ==
    Checksummed(<<FRU__VER, offs[FRU_INTERNAL_USE], offs[FRU_CHASSIS_INFO],
                  offs[FRU_BOARD_INFO], offs[FRU_PRODUCT_INFO], offs[FRU_MR], 0, 0>>)

create_frufile(e, now) == FileAreas(NoAreas(e), FRU_MIN_AREA, now)

\* fru_savebuffer(&buf, &size, fru) into a buffer it allocates, r being
\* what create_frufile() comes to
Saved(r) ==
    /\ errsrc' = IF r.crash THEN errsrc ELSE r.src
    /\ IF r.crash
       THEN err' = err /\ call' = Called("crash", -1, FALSE) /\ buf' = NoBuffer /\ oob' = FALSE
       ELSE IF ~r.ok
       THEN err' = r.err /\ call' = Called("save", -1, FALSE) /\ buf' = NoBuffer /\ oob' = FALSE
       ELSE /\ err' = r.err
            /\ call' = Called("save", -1, TRUE)
            /\ buf' = FileHeader(r.offs) \o r.data
            /\ oob' = r.spill
    /\ UNCHANGED <<ordervars, datavars, codecvars>>

SaveCall(nows) ==
    \E now \in nows :
        /\ Alive
        /\ Saved(create_frufile(err, now))

\* A record of a type no encoder exists for (what a NULL record leaves)
EmptyRec == [type |-> "EMPTY", subtype |-> 0, rtype |-> 0, enc |-> "TEXT", data |-> <<>>]

(***************************************************************************)
(* Loading a binary file, fru_load.c.  The file names several objects by   *)
(* other names than their declarations; each is read as the object of the  *)
(* same role: fru_fle as fru_file, area_size as data_size, bytes as limit, *)
(* mr_size as limit, the encoding handed to fru_add_custom() as the real   *)
(* encoding of the field's type bits, its missing index as the list tail.  *)
(***************************************************************************)
FETOOSMALL == "FETOOSMALL"
FEHDRVER == "FEHDRVER"
FEHDRCKSUM == "FEHDRCKSUM"
FEHDRBADPTR == "FEHDRBADPTR"
FEAREACKSUM == "FEAREACKSUM"
FEAREAVER == "FEAREAVER"
FEAREANOEOF == "FEAREANOEOF"
FEMRNODATA == "FEMRNODATA"
FEMRVER == "FEMRVER"
FEMRHCKSUM == "FEMRHCKSUM"
FEMRDCKSUM == "FEMRDCKSUM"

\* The flags of fru_loadbuffer() the decoders look at
LoadFlags ==
    {"FRU_IGNFVER", "FRU_IGNFHCKSUM", "FRU_IGNACKSUM", "FRU_IGNRVER",
     "FRU_IGNRHCKSUM", "FRU_IGNRDCKSUM", "FRU_IGNRNOEOL", "FRU_IGNAEOF"}

\* The byte at 0-based offset off of the buffer b, and the n bytes from
\* there on.  The buffers loaded here are saved ones with single bits
\* flipped in version and checksum bytes, which keeps every read inside.
ByteAt(b, off) == IF off < Len(b) THEN b[off + 1] ELSE 0
BytesAt(b, off, n) == [i \in 1..n |-> ByteAt(b, off + i - 1)]

\* The instance of the model as one record, as Wiped is
ThisFru ==
    [present |-> present, order |-> order, internal |-> internal, fields |-> fields,
     langtype |-> langtype, tv |-> tv, cust |-> cust, mr |-> mr]

\* A decoder works on st: the instance, fru_errno (err, src) and whether a
\* store went below order[] (oob, for the area ooba).  It returns st with
\* its return value rc.
Returned(st, rc, e) == [st EXCEPT !.rc = rc, !.err = e]

\* find_fru_header(): whether a header is returned, and the error code
find_fru_header(b, flags, e) ==
    LET badver == ByteAt(b, 0) # FRU__VER \/ ByteAt(b, 6) # 0
        badsum == ByteAt(b, 7) # fru__calc_checksum(BytesAt(b, 0, FRU__FILE_HEADER_SZ - 1))
    IN  IF Len(b) < FRU__BLOCK_SZ THEN [ok |-> FALSE, err |-> FETOOSMALL]
        ELSE IF badver /\ "FRU_IGNFVER" \notin flags THEN [ok |-> FALSE, err |-> FEHDRVER]
        ELSE IF badsum THEN [ok |-> "FRU_IGNFHCKSUM" \in flags, err |-> FEHDRCKSUM]
        ELSE [ok |-> TRUE, err |-> IF badver THEN FEHDRVER ELSE e]

\* The loop of get_area_limit(): every area whose offset byte is greater
\* than that of the area type replaces the limit found so far
RECURSIVE NextAreaOffset(_, _, _, _)
NextAreaOffset(b, type, idx, next) ==
    IF idx >= FRU_TOTAL_AREAS THEN next
    ELSE NextAreaOffset(b, type, idx + 1,
                        IF /\ ByteAt(b, 1 + idx) > ByteAt(b, 1 + type)
                           /\ FRU__BYTES(ByteAt(b, 1 + type)) < next
                        THEN FRU__BYTES(ByteAt(b, 1 + idx))
                        ELSE next)

\* get_area_limit(): 0 with FETOOSMALL when the area starts past the end
get_area_limit(b, type) ==
    IF FRU__BYTES(ByteAt(b, 1 + type)) + 1 > Len(b) THEN 0
    ELSE NextAreaOffset(b, type, 0, Len(b)) - FRU__BYTES(ByteAt(b, 1 + type))

\* decode_iu_area() with fru_set_internal_binary() of fru_load.c: the data
\* as a hex string, the presence flag set, order[] left alone
decode_iu_area(st, b, off, limit, flags) ==
    IF ByteAt(b, off) # FRU__VER /\ "FRU_IGNRVER" \notin flags
    THEN Returned(st, FALSE, FEAREAVER)
    ELSE [Returned(st, TRUE, IF ByteAt(b, off) # FRU__VER THEN FEAREAVER ELSE st.err)
             EXCEPT !.fru.internal = fru__decode_raw_binary(BytesAt(b, off + 1, limit - 1)),
                    !.fru.present[FRU_INTERNAL_USE] = TRUE]

\* fru_add_custom(fru, atype, FRU_LIST_TAIL, encoding, val) as
\* decode_custom_fields() calls it, ignoring what it returns
CustomStored(st, atype, f, sf, en) ==
    IF ~sf.ok THEN [st EXCEPT !.err = sf.err, !.src = atype]
    ELSE [st EXCEPT !.fru.cust[atype] = InsertAt(@, Len(@), sf.field),
                    !.fru.order = en.order,
                    !.fru.present = en.present,
                    !.err = en.err,
                    !.src = EnableSrc(atype, en, sf.src),
                    !.oob = @ \/ en.oob,
                    !.ooba = IF en.oob THEN atype ELSE @]

CustomLoaded(st, atype, f) ==
    CustomStored(st, atype, f, SetField(ZeroField, f.enc, f.val, st.err, st.src),
               EnableArea(st.fru.order, st.fru.present,
                          SetField(ZeroField, f.enc, f.val, st.err, st.src).err,
                          atype, FRU_APOS_AUTO))

\* decode_custom_fields(): the fields from offset pos up to the terminator
\* go to the custom list; limit is what is left of the area
RECURSIVE decode_custom_fields(_, _, _, _, _, _)
decode_custom_fields(st, b, atype, pos, limit, flags) ==
    IF limit <= 0
      THEN IF "FRU_IGNAEOF" \notin flags THEN Returned(st, FALSE, FEAREANOEOF)
           ELSE Returned(st, TRUE, st.err)
    ELSE IF ByteAt(b, pos) = FRU__FIELD_TERMINATOR THEN Returned(st, TRUE, st.err)
    ELSE decode_custom_fields(
             CustomLoaded(st, atype,
                          fru__decode_field(ByteAt(b, pos),
                                             BytesAt(b, pos + 1, FRU__FIELDLEN(ByteAt(b, pos))))),
             b, atype, pos + FRU__FIELDSIZE(ByteAt(b, pos)),
             limit - FRU__FIELDSIZE(ByteAt(b, pos)), flags)

\* The loop of decode_info_area() over the mandatory fields: field i of n
\* is at pos, left is bytes_left, which loses the size of the field that
\* follows the decoded one
RECURSIVE LoadFields(_, _, _, _, _, _)
LoadFields(b, pos, left, i, n, acc) ==
    IF i > n THEN [pos |-> pos, left |-> left, fields |-> acc]
    ELSE LoadFields(b, pos + FRU__FIELDSIZE(ByteAt(b, pos)),
                    left - FRU__FIELDSIZE(ByteAt(b, pos + FRU__FIELDSIZE(ByteAt(b, pos)))),
                    i + 1, n,
                    Append(acc, fru__decode_field(ByteAt(b, pos),
                                                  BytesAt(b, pos + 1,
                                                          FRU__FIELDLEN(ByteAt(b, pos))))))

\* The manufacturing date of a board area at off, in seconds
LoadDate(b, off) ==
    fru__datetime_base
        + 60 * (ByteAt(b, off + 3) + 256 * ByteAt(b, off + 4) + 65536 * ByteAt(b, off + 5))

\* The rest of decode_info_area() once the checksum was accepted: language
\* or type byte, date, mandatory fields m, custom fields.  The presence
\* flag of the area is not stored to.
InfoLoaded(st, b, atype, off, flags, m) ==
    decode_custom_fields(
        [st EXCEPT !.fru.langtype[atype] = ByteAt(b, off + 2),
                   !.fru.tv.sec = IF FRU__AREA_HAS_DATE(atype) THEN LoadDate(b, off) ELSE @,
                   !.fru.fields[atype] = m.fields],
        b, atype, m.pos, m.left, flags)

\* decode_info_area(): the version byte of the area is not looked at
decode_info_area(st, b, atype, off, limit, flags) ==
    LET area_size == FRU__BYTES(ByteAt(b, off + 1))
        cksum == fru__calc_checksum(BytesAt(b, off, area_size))
        data == off + FRU__INFO_AREA_HEADER_SZ + (IF FRU__AREA_HAS_DATE(atype) THEN 3 ELSE 0)
    IN  IF limit < FRU__INFO_AREA_HEADER_SZ THEN Returned(st, FALSE, FETOOSMALL)
        ELSE IF limit < area_size THEN Returned(st, FALSE, FEHDRBADPTR)
        ELSE IF cksum # 0 /\ "FRU_IGNACKSUM" \notin flags THEN Returned(st, FALSE, FEAREACKSUM)
        ELSE InfoLoaded([st EXCEPT !.err = IF cksum # 0 THEN FEAREACKSUM ELSE @],
                        b, atype, off, flags,
                        LoadFields(b, data, area_size, 1, fru__fieldcount(atype), <<>>))

\* is_mr_rec_valid() on the record at pos with limit bytes left
is_mr_rec_valid(b, pos, limit, flags, e) ==
    LET len == ByteAt(b, pos + 2)
        badver == ByteAt(b, pos + 1) % 8 # FRU__MR_VER
        badhdr == fru__calc_checksum(BytesAt(b, pos, FRU__FILE_MR_HEADER_SZ)) # 0
        baddata == fru__calc_checksum(BytesAt(b, pos + FRU__FILE_MR_HEADER_SZ, len))
                       # ByteAt(b, pos + 3)
    IN  IF limit <= FRU__FILE_MR_HEADER_SZ THEN [ok |-> FALSE, err |-> FEMRNODATA]
        ELSE IF badver /\ "FRU_IGNRVER" \notin flags THEN [ok |-> FALSE, err |-> FEMRVER]
        ELSE IF badhdr /\ "FRU_IGNRHCKSUM" \notin flags THEN [ok |-> FALSE, err |-> FEMRHCKSUM]
        ELSE IF FRU__FILE_MR_HEADER_SZ + len > limit THEN [ok |-> FALSE, err |-> FEGENERIC]
        ELSE IF baddata THEN [ok |-> "FRU_IGNRDCKSUM" \in flags, err |-> FEMRDCKSUM]
        ELSE [ok |-> TRUE,
              err |-> IF badhdr THEN FEMRHCKSUM ELSE IF badver THEN FEMRVER ELSE e]

\* decode_mr_mgmt() returns a bool: its negative error codes read as true,
\* the 0 after copying a text record as false; a UUID record goes through
\* decode_mr_mgmt_uuid()
decode_mr_mgmt(b, pos) ==
    LET len == ByteAt(b, pos + 2)
        subtype == ByteAt(b, pos + FRU__FILE_MR_HEADER_SZ)
    IN  IF \/ ByteAt(b, pos + 1) % 8 # FRU__MR_VER
           \/ ~FRU_MR_MGMT_IS_SUBTYPE_VALID(subtype)
          THEN TRUE
        ELSE IF fru__mr_mgmt_minlen[subtype] > len \/ len > fru__mr_mgmt_maxlen[subtype]
          THEN TRUE
        ELSE IF subtype = FRU_MR_MGMT_SYS_UUID THEN len = FRU__UUID_SIZE + 1
        ELSE FALSE

\* decode_mr_record(): only Management Access records have a decoder
decode_mr_record(b, pos) ==
    IF ByteAt(b, pos) # FRU_MR_MGMT_ACCESS THEN FALSE ELSE decode_mr_mgmt(b, pos)

\* The loop of decode_mr_area() at the record at pos: every record gets an
\* empty entry at the tail of the list, count is -1 once the loop gave up
RECURSIVE MrLoaded(_, _, _, _, _, _, _)
MrLoaded(st, b, pos, limit, total, count, flags) ==
    LET v == is_mr_rec_valid(b, pos, limit - total, flags, st.err)
        added == [st EXCEPT !.fru.mr = InsertAt(@, Len(@), EmptyRec),
                            !.err = is_mr_rec_valid(b, pos, limit - total, flags,
                                                    FEMRNOTSUP).err]
        n == IF count < 0 THEN 1 ELSE count + 1
    IN  IF ~v.ok
          THEN [st |-> [st EXCEPT !.err = v.err],
                count |-> IF "FRU_IGNRNOEOL" \notin flags THEN -1 ELSE count]
        ELSE IF ~decode_mr_record(b, pos) THEN [st |-> added, count |-> -1]
        ELSE IF ByteAt(b, pos + 1) >= FRU__MR_EOL THEN [st |-> added, count |-> n]
        ELSE MrLoaded(added, b, pos + FRU__FILE_MR_HEADER_SZ + ByteAt(b, pos + 2), limit,
                      total + FRU__FILE_MR_HEADER_SZ + ByteAt(b, pos + 2), n, flags)

\* The end of decode_mr_area(): the flag is set, and with count < 0 the
\* list is freed, the flag reset and FEGENERIC registered
MrSettled(r, rc) ==
    IF r.count < 0
    THEN [Returned(r.st, rc, FEGENERIC) EXCEPT !.fru.mr = <<>>, !.fru.present[FRU_MR] = FALSE]
    ELSE [Returned(r.st, rc, r.st.err) EXCEPT !.fru.present[FRU_MR] = TRUE]

\* decode_mr_area(): a list that is not empty makes it fail
decode_mr_area(st, b, off, limit, flags) ==
    IF st.fru.mr # <<>> THEN MrSettled([st |-> st, count |-> -1], FALSE)
    ELSE MrSettled(MrLoaded(st, b, off, limit, 0, -1, flags), TRUE)

\* The table decode_area[] of fru_loadbuffer()
DecodeArea(st, b, type, off, limit, flags) ==
    CASE type = FRU_INTERNAL_USE -> decode_iu_area(st, b, off, limit, flags)
      [] type = FRU_MR -> decode_mr_area(st, b, off, limit, flags)
      [] OTHER -> decode_info_area(st, b, type, off, limit, flags)

\* The loop of fru_loadbuffer() over the area types, from type on
RECURSIVE LoadAreas(_, _, _, _)
LoadNext(st, b, type, flags) ==
    IF st.rc THEN LoadAreas(st, b, type + 1, flags) ELSE st
LoadAreas(st, b, type, flags) ==
    IF type > FRU_MAX_AREA THEN st
    ELSE IF ByteAt(b, 1 + type) = 0 THEN LoadAreas(st, b, type + 1, flags)
    ELSE IF get_area_limit(b, type) = 0 THEN Returned(st, FALSE, FETOOSMALL)
    ELSE LoadNext(DecodeArea(st, b, type, FRU__BYTES(ByteAt(b, 1 + type)),
                             get_area_limit(b, type), flags),
                  b, type, flags)

\* fru_loadbuffer(init_fru, buf, size, flags): init is the caller's
\* instance when supplied, else the loader works on a zeroed allocation.
\* ret tells whether a pointer to an instance is returned, done whether
\* the loader went through all areas.
LoadResult(st, supplied) ==
    [ret |-> supplied \/ st.rc, done |-> st.rc, fru |-> st.fru, err |-> st.err,
     src |-> st.src, oob |-> st.oob, ooba |-> st.ooba]

fru_loadbuffer(init, supplied, b, flags, e, s) ==
    LET st == [fru |-> IF supplied THEN init ELSE Wiped, err |-> e, src |-> s,
               rc |-> TRUE, oob |-> FALSE, ooba |-> FRU_MIN_AREA]
        h == find_fru_header(b, flags, e)
    IN  IF ~h.ok THEN LoadResult([st EXCEPT !.fru = init, !.rc = FALSE, !.err = h.err], supplied)
        ELSE LoadResult(LoadAreas([st EXCEPT !.err = h.err], b, FRU_MIN_AREA, flags), supplied)

\* fru_loadbuffer() on the buffer b: the caller goes on with the instance
\* it got back, or with the one it had when it got NULL
Loaded(r) ==
    /\ order' = IF r.ret THEN r.fru.order ELSE order
    /\ present' \in StoreBelowOrder(IF r.ret THEN r.fru.present ELSE present, r.ooba, r.oob)
    /\ internal' = IF r.ret THEN r.fru.internal ELSE internal
    /\ fields' = IF r.ret THEN r.fru.fields ELSE fields
    /\ langtype' = IF r.ret THEN r.fru.langtype ELSE langtype
    /\ tv' = IF r.ret THEN r.fru.tv ELSE tv
    /\ cust' = IF r.ret THEN r.fru.cust ELSE cust
    /\ mr' = IF r.ret THEN r.fru.mr ELSE mr
    /\ err' = r.err
    /\ errsrc' = r.src
    /\ oob' = r.oob
    /\ call' = Called("load", -1, r.ret)
    /\ UNCHANGED <<buf, codecvars>>

LoadCall(b, flagsets, supplieds) ==
    \E flags \in flagsets, supplied \in supplieds :
        /\ Alive
        /\ Loaded(fru_loadbuffer(ThisFru, supplied, b, flags, err, errsrc))

(***************************************************************************)
(* A client that fills an instance and saves it                            *)
(***************************************************************************)
\* The longest multirecord list and custom list this client builds
MaxSaveMr == 2
MaxSaveCust == 1
\* "hostname", and a UUID of 32 hex digits
SaveName == <<104, 111, 115, 116, 110, 97, 109, 101>>
SaveUuid == [i \in 1..FRU__UUID_STRLEN_NONDASHED |-> 48 + (i % 10)]
SaveMrRecs ==
    {MgmtRec(2, SaveName), MgmtRec(FRU_MR_MGMT_SYS_UUID, SaveUuid),
     RawRec(1, "BINARY", <<48, 65>>), RawRec(1, "TEXT", <<65, 66>>), EmptyRec}
\* Clock readings: 6 November 2026, and the first second past the last
\* date the format can hold
SaveNows == {1793923200, FRU_DATETIME_MAX + 1}

SaveEnable ==
    EnableCall({FRU_INTERNAL_USE, FRU_BOARD_INFO}, {FRU_APOS_AUTO}) /\ UNCHANGED cur
SaveAddCustom ==
    /\ AddCustomCall({FRU_CHASSIS_INFO}, {0}, {[enc |-> "TEXT", val |-> <<65, 66>>]},
                     MaxSaveCust)
    /\ UNCHANGED cur
SaveAddMr == AddMrCall({0, 1}, SaveMrRecs, MaxSaveMr) /\ UNCHANGED cur
SaveSetInternalHex == SetInternalHexCall({<<48, 65>>}) /\ UNCHANGED cur
SaveBuffer == SaveCall(SaveNows) /\ UNCHANGED cur

NextSave == SaveEnable \/ SaveAddCustom \/ SaveAddMr \/ SaveSetInternalHex \/ SaveBuffer

SpecSave == Init /\ [][NextSave]_vars

(***************************************************************************)
(* A client that saves instances with long custom lists                    *)
(***************************************************************************)
\* The longest custom list, and the longest field: 63 letters
MaxBig == 32
BigField == [enc |-> "TEXT", val |-> [i \in 1..FRU__FIELDMAXLEN |-> 65]]

BigEnable == EnableCall({FRU_CHASSIS_INFO}, {FRU_APOS_AUTO}) /\ UNCHANGED cur
BigAddCustom == AddCustomCall({FRU_PRODUCT_INFO}, {0}, {BigField}, MaxBig) /\ UNCHANGED cur
BigAddMr == AddMrCall({0}, {RawRec(1, "BINARY", <<48, 65>>)}, 1) /\ UNCHANGED cur
BigSave == SaveCall({1793923200}) /\ UNCHANGED cur

NextBig == BigEnable \/ BigAddCustom \/ BigAddMr \/ BigSave

SpecBig == Init /\ [][NextBig]_vars

(***************************************************************************)
(* A client that builds the record lists and saves                         *)
(***************************************************************************)
\* The longest custom list and multirecord list this client builds
MaxList == 3
\* The indexes the client passes: the head, the place after the first entry,
\* and an index no list reaches, which appends
ListIndexes == {0, 1, MaxList}
ListFields == {[enc |-> "TEXT", val |-> <<65, 66>>], [enc |-> "TEXT", val |-> <<67, 68>>]}
ListMrRecs == {RawRec(1, "BINARY", <<48, 65>>), MgmtRec(2, SaveName)}

\* The caller's locals after a call that was passed index and arg
Passed(index, arg) == [NoCur EXCEPT !.in = index, !.index = index, !.arg = arg]

ListEnable == EnableCall({FRU_MR}, {FRU_APOS_AUTO}) /\ UNCHANGED cur
ListAddCustom ==
    \E index \in ListIndexes, arg \in ListFields :
        /\ AddCustomCall({FRU_CHASSIS_INFO}, {index}, {arg}, MaxList)
        /\ cur' = Passed(index, arg)
ListAddMr ==
    \E index \in ListIndexes, rec \in ListMrRecs :
        /\ AddMrCall({index}, {rec}, MaxList)
        /\ cur' = Passed(index, rec)
ListSave == SaveCall({1793923200}) /\ UNCHANGED cur

NextList == ListEnable \/ ListAddCustom \/ ListAddMr \/ ListSave

SpecList == Init /\ [][NextList]_vars

(***************************************************************************)
(* A client that walks the multirecord list and wipes the instance         *)
(***************************************************************************)
\* The longest multirecord list this client builds
MaxIter == 3
IterMrRecs == {RawRec(1, "BINARY", <<48, 65>>), MgmtRec(2, SaveName)}
IterTypes == {"MGMT", "RAW"}

\* The caller's locals after fru_find_mr(fru, type, &index) came to r: the
\* index variable holds what the call stored through the pointer
Found(type, index, r) ==
    [NoCur EXCEPT !.in = index, !.index = r.index, !.type = type,
                  !.ret = IF r.rc THEN MrLocate(mr, type, index) ELSE -1]
\* The caller's locals after fru_get_mr(fru, index), which takes the index
\* by value
Got(index, r) ==
    [NoCur EXCEPT !.in = index, !.index = index, !.type = "ANY",
                  !.ret = IF r.rc THEN MrLocate(mr, "ANY", index) ELSE -1]

IterAddMr == AddMrCall({0, MaxIter}, IterMrRecs, MaxIter) /\ UNCHANGED cur
\* A search starts at the head of the list or goes on with the index
\* variable as the call before left it
IterFindMr ==
    \E type \in IterTypes, index \in {0, cur.index} :
        /\ FindMrCall({type}, {index})
        /\ cur' = Found(type, index,
                        mr_operation(mr, present, err, "MR_OP_FIND", NoRec, type, index))
IterGetMr ==
    \E index \in 0..(MaxIter - 1) :
        /\ GetMrCall({index})
        /\ cur' = Got(index,
                      mr_operation(mr, present, err, "MR_OP_FIND", NoRec, "ANY", index))
IterWipe == WipeCall /\ UNCHANGED cur
IterClearErr == ClearErrCall /\ UNCHANGED cur

NextIter == IterAddMr \/ IterFindMr \/ IterGetMr \/ IterWipe \/ IterClearErr

SpecIter == Init /\ [][NextIter]_vars

(***************************************************************************)
(* A client that saves an instance, damages the file and loads it          *)
(***************************************************************************)
\* The longest custom list and multirecord list this client builds
MaxLoadCust == 1
MaxLoadMr == 1
LoadAreaSet == {FRU_CHASSIS_INFO, FRU_BOARD_INFO}
LoadFlagSets == {{}, {"FRU_IGNACKSUM"}, {"FRU_IGNFVER", "FRU_IGNFHCKSUM", "FRU_IGNRVER"}}

\* The byte d with its lowest bit flipped
Flipped(d) == IF d % 2 = 0 THEN d + 1 ELSE d - 1

\* The offsets of the file b a single bit is flipped at: version and
\* checksum byte of the header, and of every area the header points to its
\* first byte (the version) and, for an info area, its last (the checksum)
AreaStart(b, a) == FRU__BYTES(ByteAt(b, 1 + a))
AreaEnd(b, a) == AreaStart(b, a) + FRU__BYTES(ByteAt(b, AreaStart(b, a) + 1)) - 1
DamageSpots(b) ==
    {0, FRU__FILE_HEADER_SZ - 1}
        \cup {AreaStart(b, a) : a \in {x \in Areas : ByteAt(b, 1 + x) # 0}}
        \cup {AreaEnd(b, a) : a \in {x \in InfoAreas : ByteAt(b, 1 + x) # 0}}

\* The caller's locals after fru_loadbuffer() came to r
\* (in: the records the instance handed in held)
LoadedWith(flags, supplied, r) ==
    [NoCur EXCEPT !.flags = flags, !.supplied = supplied, !.done = r.done,
                  !.in = IF supplied THEN Len(mr) ELSE 0]

\* The client fills the instance until it has a file
Filling == buf = NoBuffer /\ call.op # "load"

LoadEnable ==
    /\ Filling
    /\ EnableCall(LoadAreaSet, {FRU_APOS_AUTO, FRU_APOS_LAST})
    /\ UNCHANGED cur
LoadAddCustom ==
    /\ Filling
    /\ AddCustomCall({FRU_CHASSIS_INFO}, {0}, {[enc |-> "TEXT", val |-> <<65, 66>>]},
                     MaxLoadCust)
    /\ UNCHANGED cur
LoadAddMr ==
    /\ Filling
    /\ AddMrCall({0}, {MgmtRec(FRU_MR_MGMT_SYS_UUID, SaveUuid), RawRec(1, "BINARY", <<48, 65>>)},
                 MaxLoadMr)
    /\ UNCHANGED cur
LoadSetInternalHex ==
    /\ Filling
    /\ internal = NoString
    /\ SetInternalHexCall({<<48, 65>>})
    /\ UNCHANGED cur
LoadSave ==
    /\ Filling
    /\ SaveCall({1793923200})
    /\ UNCHANGED cur
\* One bit of the file that was just saved is flipped
LoadDamage ==
    /\ call.op = "save"
    /\ call.rc
    /\ \E spot \in DamageSpots(buf) : buf' = [buf EXCEPT ![spot + 1] = Flipped(@)]
    /\ call' = Called("damage", -1, TRUE)
    /\ UNCHANGED <<ordervars, datavars, err, errsrc, oob, codecvars, cur>>
\* The instance the file was saved from is initialised again
LoadInit ==
    /\ buf # NoBuffer
    /\ call.op \in {"save", "damage"}
    /\ InitCall
    /\ UNCHANGED cur
\* The file is loaded: into the instance it was saved from, into that
\* instance after fru_init(), or into one the loader allocates
LoadBuffer ==
    \E flags \in LoadFlagSets, supplied \in BOOLEAN :
        /\ buf # NoBuffer
        /\ call.op # "load"
        /\ LoadCall(buf, {flags}, {supplied})
        /\ cur' = LoadedWith(flags, supplied,
                             fru_loadbuffer(ThisFru, supplied, buf, flags, err, errsrc))

NextLoad ==
    \/ LoadInit \/ LoadEnable \/ LoadAddCustom \/ LoadAddMr \/ LoadSetInternalHex
    \/ LoadSave \/ LoadDamage \/ LoadBuffer

SpecLoad == Init /\ [][NextLoad]_vars

(***************************************************************************)
(* A client that sets the board date and saves                             *)
(***************************************************************************)
\* The times the client stores: unspecified, the base, one minute and just
\* under two minutes past it, 256 and 65536 minutes past it, the last one
\* three bytes hold
DateTimes ==
    {0, fru__datetime_base, fru__datetime_base + 60, fru__datetime_base + 119,
     fru__datetime_base + 256 * 60, fru__datetime_base + 65536 * 60, FRU_DATETIME_MAX}

\* The caller stores fru->board.tv and fru->board.tv_auto
SetBoardTv(secs, autos) ==
    \E sec \in secs, auto \in autos :
        /\ Alive
        /\ tv' = [auto |-> auto, sec |-> sec]
        /\ call' = Called("set_tv", FRU_BOARD_INFO, TRUE)
        /\ UNCHANGED <<ordervars, internal, fields, langtype, cust, mr,
                       err, errsrc, oob, buf, codecvars>>

DateEnable ==
    /\ EnableCall({FRU_CHASSIS_INFO, FRU_BOARD_INFO}, {FRU_APOS_AUTO, FRU_APOS_FIRST})
    /\ UNCHANGED cur
DateDisable == DisableCall({FRU_CHASSIS_INFO, FRU_BOARD_INFO}) /\ UNCHANGED cur
DateSetTv == SetBoardTv(DateTimes, BOOLEAN) /\ UNCHANGED cur
DateSave == SaveCall({1793923200}) /\ UNCHANGED cur

NextDate == DateEnable \/ DateDisable \/ DateSetTv \/ DateSave

SpecDate == Init /\ [][NextDate]_vars

(***************************************************************************)
(* A client that saves System UUID records                                 *)
(***************************************************************************)
MaxUuidMr == 2

\* "01234567-89AB-CDEF-0123-456789ABCDEF", the same without the dashes and
\* in lower case, and a string of 32 digits
UuidDashed ==
    <<48, 49, 50, 51, 52, 53, 54, 55, 45, 56, 57, 65, 66, 45, 67, 68, 69, 70, 45,
      48, 49, 50, 51, 45, 52, 53, 54, 55, 56, 57, 65, 66, 67, 68, 69, 70>>
UuidPlain == SelectSeq(UuidDashed, LAMBDA c : c # 45)
UuidLower == [i \in 1..Len(UuidPlain) |->
                 IF IsUpperHex(UuidPlain[i]) THEN UuidPlain[i] + 32 ELSE UuidPlain[i]]
UuidStrings == {UuidDashed, UuidPlain, UuidLower, SaveUuid}
UuidMrRecs ==
    {MgmtRec(FRU_MR_MGMT_SYS_UUID, s) : s \in UuidStrings}
        \cup {RawRec(1, "BINARY", <<48, 65>>)}

UuidAddMr == AddMrCall({0, MaxUuidMr}, UuidMrRecs, MaxUuidMr) /\ UNCHANGED cur
UuidDeleteMr == DeleteMrCall({0}) /\ UNCHANGED cur
UuidSave == SaveCall({1793923200}) /\ UNCHANGED cur

NextUuid == UuidAddMr \/ UuidDeleteMr \/ UuidSave

SpecUuid == Init /\ [][NextUuid]_vars

(***************************************************************************)
(* A client of the internal use area                                       *)
(***************************************************************************)
\* Strings of up to MaxHexLen characters: two hex digits, a separator and a
\* character that is neither
MaxHexLen == 3
HexChars == {48, 65, 45, 71}
HexStrings == UNION {[1..n -> HexChars] : n \in 0..MaxHexLen}
HexBlobs == {<<>>, <<10>>, <<10, 255>>}

HexSetInternalHex == SetInternalHexCall(HexStrings) /\ UNCHANGED cur
HexSetInternalBinary == SetInternalBinaryCall(HexBlobs) /\ UNCHANGED cur
HexDeleteInternal == DeleteInternalCall /\ UNCHANGED cur
HexClearErr == ClearErrCall /\ UNCHANGED cur

NextHex == HexSetInternalHex \/ HexSetInternalBinary \/ HexDeleteInternal \/ HexClearErr

SpecHex == Init /\ [][NextHex]_vars

(***************************************************************************)
(* A client that moves areas, with positions of any value                  *)
(***************************************************************************)
\* The valid positions and the values next to their range on either side
MovePositions == PosArgs \cup {FRU_APOS_FIRST - 1, FRU_APOS_MAX + 1}
\* The area tags and the values next to their range on either side
MoveAreas == Areas \cup {FRU_MIN_AREA - 1, FRU_MAX_AREA + 1}

MoveEnable == EnableCall(Areas, {FRU_APOS_AUTO, FRU_APOS_LAST}) /\ UNCHANGED cur
MoveDisable == DisableCall(Areas) /\ UNCHANGED cur
MoveAny == MoveCall(MoveAreas, MovePositions) /\ UNCHANGED cur

NextMove == MoveEnable \/ MoveDisable \/ MoveAny

SpecMove == Init /\ [][NextMove]_vars

(***************************************************************************)
(* A client that runs encode_bcdplus() one iteration at a time             *)
(***************************************************************************)
\* Strings of one repeated character, of lengths up to MaxPack: a digit, a
\* dash, and a letter that BCD+ has no code for
MaxPack == 128
PackLens == {1, 2, MaxPack - 3, MaxPack - 2, MaxPack - 1, MaxPack}
PackChars == {48, 45, 65}
PackStrings == {[i \in 1..n |-> c] : n \in PackLens, c \in PackChars}

InitPack ==
    /\ InitFru
    /\ fld \in [enc : {"BCDPLUS"}, val : PackStrings]
    /\ enc = NoEncoded
    /\ dec = NoField

\* c[k] after the iteration for character i: the nibble of the last
\* character at an index of that parity, 0 while there was none
BcdPair(s, i, k) ==
    IF i % 2 = k THEN BcdNibble(CharAt(s, i))
    ELSE IF i = 0 THEN 0
    ELSE BcdNibble(CharAt(s, i - 1))

\* encode_bcdplus() up to its loop: the length is cut to the six length
\* bits and the truncation registered; cur.index is the loop variable i,
\* enc.data the bytes of out->data stored so far
BcdEnter ==
    /\ call = NoCall
    /\ cur' = [cur EXCEPT !.index = 0]
    /\ enc' = [ok |-> FALSE, err |-> FENONE, typelen |-> 0, data |-> <<>>]
    /\ err' = IF TooBig((Len(fld.val) + 1) \div 2) THEN FE2BIG ELSE err
    /\ errsrc' = IF TooBig((Len(fld.val) + 1) \div 2)
                 THEN GeneralSrc(FE2BIG, errsrc) ELSE errsrc
    /\ call' = Called("bcd_loop", -1, FALSE)
    /\ UNCHANGED <<ordervars, datavars, oob, fld, dec, buf>>

\* One iteration: a character without a code ends the call with FERANGE,
\* any other is packed and the pair stored at out->data[i / 2].  The
\* buffer of fru__encode_field() holds the type/length byte and
\* FRU__FIELDMAXLEN bytes of data.
BcdStep ==
    /\ Alive
    /\ call.op = "bcd_loop"
    /\ cur.index < Len(fld.val)
    /\ IF BcdNibble(CharAt(fld.val, cur.index)) < 0
       THEN /\ err' = FERANGE
            /\ errsrc' = GeneralSrc(FERANGE, errsrc)
            /\ call' = Called("encode_bcdplus", -1, FALSE)
            /\ UNCHANGED <<enc, oob, cur>>
       ELSE /\ oob' = (cur.index \div 2 >= FRU__FIELDMAXLEN)
            /\ enc' = [enc EXCEPT !.data =
                          IF cur.index \div 2 >= FRU__FIELDMAXLEN THEN @
                          ELSE Poke(@, cur.index \div 2,
                                    ((BcdPair(fld.val, cur.index, 0) * 16) % 256)
                                        + BcdPair(fld.val, cur.index, 1))]
            /\ cur' = [cur EXCEPT !.index = @ + 1]
            /\ UNCHANGED <<err, errsrc, call>>
    /\ UNCHANGED <<ordervars, datavars, fld, dec, buf>>

\* The end of the loop: the type/length byte is stored and the call
\* returns true
BcdReturn ==
    /\ Alive
    /\ call.op = "bcd_loop"
    /\ cur.index = Len(fld.val)
    /\ enc' = [ok |-> TRUE, err |-> err,
               typelen |-> FRU__TYPELEN(FRU__TYPE_BCDPLUS,
                                        Truncated((Len(fld.val) + 1) \div 2)),
               data |-> Take(enc.data, Truncated((Len(fld.val) + 1) \div 2))]
    /\ call' = Called("encode_bcdplus", -1, TRUE)
    /\ UNCHANGED <<ordervars, datavars, err, errsrc, oob, fld, dec, buf, cur>>

NextPack == BcdEnter \/ BcdStep \/ BcdReturn

SpecPack == InitPack /\ [][NextPack]_vars

(***************************************************************************)
(* A client that saves info areas of every size modulo a block             *)
(***************************************************************************)
\* The longest custom field and the longest custom list this client adds
MaxPadLen == 4
MaxPadCust == 1
PadFields == {[enc |-> "TEXT", val |-> [i \in 1..n |-> 65]] : n \in 0..MaxPadLen}

PadEnable ==
    EnableCall({FRU_CHASSIS_INFO, FRU_BOARD_INFO}, {FRU_APOS_AUTO}) /\ UNCHANGED cur
PadAddCustom ==
    /\ AddCustomCall({FRU_CHASSIS_INFO, FRU_BOARD_INFO}, {0}, PadFields, MaxPadCust)
    /\ UNCHANGED cur
PadSave == SaveCall({1793923200}) /\ UNCHANGED cur

NextPad == PadEnable \/ PadAddCustom \/ PadSave

SpecPad == Init /\ [][NextPad]_vars

(***************************************************************************)
(* A client that saves to a file: fru_savefile(), one write() at a time    *)
(***************************************************************************)
\* The locals of fru_savefile() and the file behind fd: where the call is,
\* the counter `written`, and the bytes the file holds.  A file opened
\* with O_TRUNC starts empty and every write() appends at the file offset.
FileLocals(pc, written, file) == [pc |-> pc, written |-> written, file |-> file]
InSaveFile == cur # NoCur

\* What write(fd, frufile, frufile_size) may return: a count of bytes from
\* 1 up to the size asked for, or -1 with errno EINTR or another error
WriteResults(size) == {-1} \cup (1..size)
WriteErrnos == {"EINTR", "EIO"}

FileEnable ==
    /\ ~InSaveFile
    /\ EnableCall({FRU_CHASSIS_INFO}, {FRU_APOS_AUTO})
    /\ UNCHANGED cur

\* fru_savefile() up to its loop: fru_savebuffer(), then open(), which may
\* fail
FileOpen ==
    /\ ~InSaveFile
    /\ SaveCall({1793923200})
    /\ \E fd \in {-1, 3} :
           cur' = IF ~call'.rc \/ fd < 0 THEN FileLocals("failed", 0, <<>>)
                  ELSE FileLocals("write", 0, <<>>)

\* One iteration of the loop: write() is handed the start of the buffer
\* and its whole size whatever was written before.  EINTR repeats the
\* iteration, another error ends the call.
FileWrite ==
    /\ InSaveFile
    /\ cur.pc = "write"
    /\ cur.written < Len(buf)
    /\ \E rc \in WriteResults(Len(buf)), errno \in WriteErrnos :
           /\ cur' = IF rc < 0 /\ errno = "EINTR" THEN cur
                     ELSE IF rc < 0 THEN [cur EXCEPT !.pc = "failed"]
                     ELSE [cur EXCEPT !.written = @ + rc,
                                      !.file = @ \o SubSeq(buf, 1, rc)]
           /\ err' = IF rc < 0 /\ errno # "EINTR" THEN FEGENERIC ELSE err
           /\ errsrc' = IF rc < 0 /\ errno # "EINTR"
                        THEN GeneralSrc(FEGENERIC, errsrc) ELSE errsrc
    /\ UNCHANGED <<ordervars, datavars, call, oob, buf, codecvars>>

\* The end of the loop: the buffer is freed, the file closed, true returned
FileClose ==
    /\ InSaveFile
    /\ cur.pc = "write"
    /\ cur.written >= Len(buf)
    /\ cur' = [cur EXCEPT !.pc = "done"]
    /\ call' = Called("savefile", -1, TRUE)
    /\ UNCHANGED <<ordervars, datavars, err, errsrc, oob, buf, codecvars>>

NextFile == FileEnable \/ FileOpen \/ FileWrite \/ FileClose

SpecFile == Init /\ [][NextFile]_vars

\* write() transfers bytes or fails for good after finitely many
\* interruptions, and the process keeps running
FairSpecFile == SpecFile /\ WF_vars(FileWrite) /\ WF_vars(FileClose)

(***************************************************************************)
(* Properties of the area order                                            *)
(***************************************************************************)
\* Every area tag sits in exactly one slot of ord
IsPermutation(ord) == \A a \in Areas : Cardinality({i \in Slots : ord[i] = a}) = 1
\* No slot holding an absent area comes after a slot holding a present one
Clustered(ord, pres) == \A i, j \in Slots : (i < j /\ pres[ord[i]]) => pres[ord[j]]

\* C1: after fru_init() and any sequence of the mutating calls, order[] is a
\* permutation of the five area tags.  The code does not keep it:
\* fru_delete_internal() clears the flag where the area stands, and the next
\* fru_enable_area() overwrites a neighbour's slot.
OrderIsPermutation == IsPermutation(order)

\* C2: after fru_init() and any sequence of enable, disable and move calls
\* with arguments the calls accept, the absent areas come first in order[].
\* The code does not keep it: a position naming an absent area leaves
\* new_pos at -1.
AbsentAreasFirst == Clustered(order, present)

\* C3: the calls that change an area's presence as a side effect keep the
\* absent areas first: none of them takes an instance whose absent areas
\* come first to one where they do not.  fru_delete_mr() and
\* fru_delete_internal() do, they clear the flag without moving the area.
SideEffectOps ==
    {"add_mr", "delete_mr", "set_internal_hexstring", "set_internal_binary",
     "delete_internal", "add_custom"}
SideEffectsKeepAbsentFirst ==
    [][(call'.op \in SideEffectOps /\ Clustered(order, present))
          => Clustered(order', present')]_vars

\* C4: a record operation on a disabled area fails with FEADISABLED and
\* leaves flags, order, fields, custom lists and the MR list as they were.
\* The operations on fields and custom fields take an info area, those on
\* multirecords work on the MR area.
FieldOps == {"get_field", "add_custom", "get_custom", "delete_custom"}
MrOps == {"add_mr", "get_mr", "find_mr", "replace_mr", "delete_mr"}
RecordOpOn(c) ==
    \/ (c.op \in FieldOps /\ FRU_IS_INFO_AREA(c.a))
    \/ (c.op \in MrOps /\ c.a = FRU_MR)
DisabledAreaRejects ==
    [][(RecordOpOn(call') /\ ~present[call'.a])
          => (/\ call'.rc = FALSE
              /\ err' = FEADISABLED
              /\ UNCHANGED <<present, order, fields, cust, mr>>)]_vars

\* C5: fru_enable_area() on an area that is already enabled fails with
\* FEAENABLED and leaves order[] and present[] as they were, whichever
\* position is requested.
EnableOnEnabledFails ==
    [][(call'.op = "enable" /\ present[call'.a])
          => (/\ call'.rc = FALSE
              /\ err' = FEAENABLED
              /\ UNCHANGED <<order, present>>)]_vars
\* An enable call on an enabled area has just returned
EnableOnEnabledSeen ==
    call.op = "enable" /\ present[call.a] /\ call.rc = FALSE /\ err = FEAENABLED

\* C6: fru_disable_area() on an area that is already disabled returns
\* failure, registers FEADISABLED and leaves order[] and present[] as they
\* were.  The code returns true and registers FEAENABLED.
DisableOnDisabledFails ==
    [][(call'.op = "disable" /\ ~present[call'.a])
          => (/\ call'.rc = FALSE
              /\ err' = FEADISABLED
              /\ UNCHANGED <<order, present>>)]_vars

\* C7: a field with a real encoding whose value the encoder accepts and which
\* is in canonical form (not empty, no trailing spaces, only upper-case hex
\* digits for Binary) decodes back to the same encoding and string.  The
\* code does not do that for a BCD+ value of odd length nor for a 6-bit
\* value that packs into a zero byte.
Canonical(f) ==
    /\ FRU_FE_IS_REAL(f.enc)
    /\ Len(f.val) > 0
    /\ f.val[Len(f.val)] # 32
    /\ f.enc = "BINARY" => \A i \in 1..Len(f.val) : IsDigit(f.val[i]) \/ IsUpperHex(f.val[i])
FieldRoundTrips == (dec # NoField /\ Canonical(fld)) => dec = fld

(***************************************************************************)
(* Properties of the saved file                                            *)
(***************************************************************************)
\* fru_savebuffer() has just returned a buffer
SavedOk == call.op = "save" /\ call.rc

\* The byte position each area was put at (save leaves the instance as it
\* was, so the positions can be told from the instance)
PlacedAt == create_frufile(FENONE, 1793923200).at

\* The bytes b[lo..hi] (1-based) lie in the buffer and sum to 0 modulo 256
ZeroSum(b, lo, hi) == hi <= Len(b) /\ SumBytes(b, lo, hi) % 256 = 0

\* The 0-based position of the header of the k-th record of a multirecord
\* area that starts at position start, following the length bytes
RECURSIVE MrHeaderPos(_, _, _)
MrHeaderPos(b, start, k) ==
    IF k = 1 THEN start
    ELSE MrHeaderPos(b, start, k - 1) + FRU__FILE_MR_HEADER_SZ
         + b[MrHeaderPos(b, start, k - 1) + 3]

InfoAreaSums(b, at) ==
    /\ at + 2 <= Len(b)
    /\ b[at + 2] > 0
    /\ ZeroSum(b, at + 1, at + 8 * b[at + 2])

MrRecordSums(b, p) ==
    /\ ZeroSum(b, p + 1, p + FRU__FILE_MR_HEADER_SZ)
    /\ p + FRU__FILE_MR_HEADER_SZ + b[p + 3] <= Len(b)
    /\ (b[p + 4] + SumBytes(b, p + 6, p + FRU__FILE_MR_HEADER_SZ + b[p + 3])) % 256 = 0

\* The checksums of a buffer b whose areas were put at the positions at
ChecksumsAt(b, at) ==
    /\ ZeroSum(b, 1, FRU__FILE_HEADER_SZ)
    /\ \A a \in InfoAreas : present[a] => InfoAreaSums(b, at[a])
    /\ present[FRU_MR] =>
           \A k \in 1..Len(mr) : MrRecordSums(b, MrHeaderPos(b, at[FRU_MR], k))

\* C8: in a buffer that fru_savebuffer() produced, the file header, every
\* info area over its 8*blocks bytes and every multirecord header sum to 0
\* modulo 256, and so does every record's data checksum with its payload.
ChecksumsHold == SavedOk => ChecksumsAt(buf, PlacedAt)

\* The offset bytes of a buffer b whose areas were put at the positions at
LayoutAt(b, at) ==
    /\ \A a \in Areas :
           IF present[a]
           THEN at[a] % FRU__BLOCK_SZ = 0 /\ b[a + 2] * FRU__BLOCK_SZ = at[a]
           ELSE b[a + 2] = 0
    /\ \A i \in Slots : \A j \in Slots :
           (i < j /\ present[order[i]] /\ present[order[j]]) => at[order[i]] < at[order[j]]
    /\ \A i \in Slots :
           (present[order[i]] /\ \A j \in 0..(i - 1) : ~present[order[j]])
               => at[order[i]] = FRU__FILE_HEADER_SZ

\* C9: in a saved buffer the present areas follow the header in the
\* sequence of order[], block-aligned; the offset byte of a present area
\* times 8 is the position where the area starts, and the offset byte of
\* an absent area is 0.
OffsetsMatchLayout == SavedOk => LayoutAt(buf, PlacedAt)

\* The header at 0-based position p carries the end-of-list bit
EolAt(b, p) == b[p + 2] >= FRU__MR_EOL

\* C10: in a saved multirecord area exactly one record header carries the
\* end-of-list bit, the header of the last record of the list.
LastRecordEndsList ==
    (SavedOk /\ present[FRU_MR]) =>
        \A k \in 1..Len(mr) :
            EolAt(buf, MrHeaderPos(buf, buf[FRU_MR + 2] * FRU__BLOCK_SZ, k)) <=> (k = Len(mr))

\* A list of two records, a Management Access and a raw one, was saved
TwoRecordsSaved ==
    /\ SavedOk
    /\ present[FRU_MR]
    /\ Len(mr) = 2
    /\ \E i \in 1..2 : mr[i].type = "MGMT"
    /\ \E i \in 1..2 : mr[i].type = "RAW"

\* C11: fru_savebuffer() on an instance whose multirecord area is present
\* while the MR list is empty fails, registers FENOREC with the MR area as
\* the source, and returns no buffer.
EmptyMrSaveFails ==
    [][(call'.op = "save" /\ present[FRU_MR] /\ Len(mr) = 0)
          => (/\ call'.rc = FALSE
              /\ err' = FENOREC
              /\ errsrc' = FERR_LOC_MR
              /\ buf' = NoBuffer)]_vars
\* A save of an instance with an enabled, empty multirecord area has failed
EmptyMrSaveSeen ==
    /\ call.op = "save"
    /\ ~call.rc
    /\ present[FRU_MR]
    /\ Len(mr) = 0
    /\ present[FRU_CHASSIS_INFO]

\* The field fld has been through fru__encode_field()
EncodeTried == enc # NoEncoded

\* C12: with automatic selection "IPMI" encodes as 6-bit ASCII of length 3,
\* "12-34" as BCD+ of length 3, "DEADBEEF" as Binary of length 4 and
\* "Hello, world" as Text.  The code tries 6-bit ASCII first and takes it
\* for "12-34" and "DEADBEEF" as well.
AutoPicks(s, type) ==
    (EncodeTried /\ fld = [enc |-> "AUTO", val |-> s])
        => (enc.ok /\ FRU__TYPE(enc.typelen) = type)
AutoPicksLen(s, type, len) ==
    (EncodeTried /\ fld = [enc |-> "AUTO", val |-> s])
        => (enc.ok /\ enc.typelen = FRU__TYPELEN(type, len))
AutoPicksNarrowest ==
    /\ AutoPicksLen(StrIPMI, FRU__TYPE_ASCII_6BIT, 3)
    /\ AutoPicksLen(StrSerial, FRU__TYPE_BCDPLUS, 3)
    /\ AutoPicksLen(StrHex, FRU__TYPE_BINARY, 4)
    /\ AutoPicks(StrHello, FRU__TYPE_TEXT)

\* C13: a printable string of one character encodes as Text with the
\* type/length byte of length 2, never the terminator, followed by the
\* character and a NUL.  The code reads the NUL as a character of the
\* string and rejects it as unprintable.
OneCharTextPadded ==
    (EncodeTried /\ fld.enc = "TEXT" /\ Len(fld.val) = 1 /\ IsPrint(fld.val[1]))
        => /\ enc.ok
           /\ enc.typelen = FRU__TYPELEN(FRU__TYPE_TEXT, 2)
           /\ enc.typelen # FRU__FIELD_TERMINATOR
           /\ enc.data = <<fld.val[1], 0>>

\* The list new is the list old of n entries with x put in at position
\* min(index, n): n + 1 entries, x at that position, the earlier entries
\* in their sequence around it
InsertedAt(old, new, index, x) ==
    LET n == Len(old)
        k == IF index < n THEN index ELSE n
    IN  /\ Len(new) = n + 1
        /\ new[k + 1] = x
        /\ \A i \in 1..n : new[IF i <= k THEN i ELSE i + 1] = old[i]

\* C17: a successful fru_add_custom(area, index, ...) on a custom list of n
\* fields leaves n + 1 fields with the new one at position min(index, n)
\* and the earlier ones in their sequence; fru_add_mr(index, record) does
\* the same to the MR list.
AddInsertsAtIndex ==
    [][/\ (call'.op = "add_custom" /\ call'.rc)
           => InsertedAt(cust[call'.a], cust'[call'.a], cur'.in, cur'.arg)
       /\ (call'.op = "add_mr" /\ call'.rc)
           => InsertedAt(mr, mr', cur'.in, cur'.arg)]_vars
\* A field has been put between two others
AddedInTheMiddle ==
    /\ call.op = "add_custom"
    /\ call.rc
    /\ cur.in = 1
    /\ Len(cust[FRU_CHASSIS_INFO]) = 3
    /\ cust[FRU_CHASSIS_INFO][1] # cust[FRU_CHASSIS_INFO][3]
    /\ Len(mr) = 2

\* The step is a call fru_enable_area(fru, a, p)
EnableStep(a, p) == Alive /\ EnableResult(a, EnableArea(order, present, err, a, p))

\* In ord the area a has the slot right after a slot of the area x
RightAfter(ord, x, a) ==
    \E i \in FRU_APOS_MIN..(FRU_APOS_MAX - 1) : ord[i] = x /\ ord[i + 1] = a

WipedIsInitial ==
    call.op = "wipe" =>
        /\ present = [a \in Areas |-> FALSE]
        /\ order = [i \in Slots |-> i]
        /\ cust = [a \in InfoAreas |-> <<>>]
        /\ mr = <<>>
        /\ internal = NoString

\* The step is a successful fru_find_mr() that goes on where the successful
\* search before it stopped: the same type and the same index variable
FindGoesOn ==
    /\ call.op = "find_mr" /\ call.rc
    /\ call'.op = "find_mr" /\ call'.rc
    /\ cur'.type = cur.type
    /\ cur'.in = cur.index

\* C18: a successful fru_find_mr(type, &index) advances index, so that the
\* next call with the same index variable returns a later record of the
\* type or fails, never the same record again.  The code stores the
\* position of the record it found, and the next call finds it again.
FindAdvances == [][FindGoesOn => cur'.ret > cur.ret]_vars

\* C19 as stated: after a successful fru_get_mr() or fru_find_mr() the
\* error code is FEMREND if and only if the returned record is the last of
\* the MR list.  The code sets FEMREND for the last record and leaves the
\* error code as it was for any other, so an FEMREND of an earlier call
\* stays.
EndOfListTold ==
    (call.op \in {"get_mr", "find_mr"} /\ call.rc)
        => (err = FEMREND <=> cur.ret = Len(mr) - 1)

\* C19: a successful fru_get_mr() or fru_find_mr() called with the error
\* status clear, as after fru_clearerr(), leaves the error code FEMREND if
\* and only if the returned record is the last of the MR list.
EndOfListToldAfterClear ==
    [][(call'.op \in {"get_mr", "find_mr"} /\ call'.rc /\ err = FENONE)
          => (err' = FEMREND <=> cur'.ret = Len(mr') - 1)]_vars
\* After the last record made the library register FEMREND and the caller
\* cleared it, a record with successors has been returned
MoreAfterClear ==
    /\ call.op \in {"get_mr", "find_mr"}
    /\ call.rc
    /\ Len(mr) = MaxIter
    /\ cur.ret = 0
    /\ err = FENONE

(***************************************************************************)
(* Properties of the loader                                                *)
(***************************************************************************)
\* What the file format asks of the file b, told from its bytes alone: the
\* header has version 1, a zero pad byte and a checksum that makes its
\* bytes sum to 0
HeaderSound(b) ==
    /\ ByteAt(b, 0) = FRU__VER
    /\ ByteAt(b, 6) = 0
    /\ Byte(SumBytes(b, 1, FRU__FILE_HEADER_SZ)) = 0
\* The area a of the file has version 1
AreaVersionSound(b, a) == ByteAt(b, AreaStart(b, a)) % 16 = FRU__VER
\* The bytes of the info area a of the file sum to 0
AreaChecksumSound(b, a) == Byte(SumBytes(b, AreaStart(b, a) + 1, AreaEnd(b, a) + 1)) = 0
\* The areas the header points to
OnDisk(b) == {a \in Areas : ByteAt(b, 1 + a) # 0}
\* The file has a header or an area with a wrong version or checksum
FileViolated(b) ==
    \/ ~HeaderSound(b)
    \/ \E a \in OnDisk(b) \ {FRU_MR} : ~AreaVersionSound(b, a)
    \/ \E a \in OnDisk(b) \cap InfoAreas : ~AreaChecksumSound(b, a)
\* The checksum of the chassis area is all that is wrong with the file
OnlyChassisChecksum(b) ==
    /\ HeaderSound(b)
    /\ FRU_CHASSIS_INFO \in OnDisk(b)
    /\ ~AreaChecksumSound(b, FRU_CHASSIS_INFO)
    /\ \A a \in OnDisk(b) \ {FRU_MR} : AreaVersionSound(b, a)
    /\ \A a \in (OnDisk(b) \cap InfoAreas) \ {FRU_CHASSIS_INFO} : AreaChecksumSound(b, a)

\* fru_loadbuffer() has returned
LoadTried == call.op = "load"

\* C14: a load without leniency flags of a file whose header or one of
\* whose areas has a wrong checksum or version returns no instance, with
\* or without an instance supplied by the caller; when one bit of the
\* chassis area checksum is wrong it fails with FEAREACKSUM and the chassis
\* area as the source, and the same load with FRU_IGNACKSUM succeeds.  The
\* code returns the caller's instance from a failed load and leaves the
\* source of the error as it was.
StrictLoadFails ==
    /\ (LoadTried /\ cur.flags = {} /\ FileViolated(buf)) => ~call.rc
    /\ (LoadTried /\ cur.flags = {} /\ OnlyChassisChecksum(buf))
           => (err = FEAREACKSUM /\ errsrc = FRU_CHASSIS_INFO)
    /\ (LoadTried /\ cur.flags = {"FRU_IGNACKSUM"} /\ OnlyChassisChecksum(buf)
           /\ cur.in = 0)
           => (call.rc /\ cur.done)

\* C15: after a successful load order[] is a permutation of the area tags
\* with the absent areas first and the present ones behind them in the
\* sequence of their offsets in the file.  The loader does not store to
\* order[]: an instance it allocates has the Internal Use tag in every
\* slot, and the areas come in the sequence fru_enable_area() gives them.
LoadedInFileOrder ==
    (LoadTried /\ call.rc /\ cur.done) =>
        /\ IsPermutation(order)
        /\ Clustered(order, present)
        /\ \A i, j \in Slots :
               (i < j /\ present[order[i]] /\ present[order[j]])
                   => ByteAt(buf, 1 + order[i]) < ByteAt(buf, 1 + order[j])


(***************************************************************************)
(* Properties of the board date                                            *)
(***************************************************************************)
\* fru_savebuffer() has returned for an instance with the board area and a
\* date the caller gave
BoardSaveTried == call.op = "save" /\ present[FRU_BOARD_INFO] /\ ~tv.auto

\* The three mfgdate bytes of the board area of the file b
MfgDateOf(b) == BytesAt(b, AreaStart(b, FRU_BOARD_INFO) + FRU__INFO_AREA_HEADER_SZ, 3)

\* C21: a board area saved with tv_auto false and tv one minute after
\* 1996-01-01T00:00Z has the mfgdate bytes 01 00 00; saved with tv_auto
\* false and tv = 0 the save succeeds and the bytes are 00 00 00.  The code
\* refuses every tv below the base when tv_auto is false, 0 included.
BoardDateWritten ==
    /\ (BoardSaveTried /\ tv.sec = fru__datetime_base + 60)
           => (call.rc /\ MfgDateOf(buf) = <<1, 0, 0>>)
    /\ (BoardSaveTried /\ tv.sec = 0)
           => (call.rc /\ MfgDateOf(buf) = <<0, 0, 0>>)

(***************************************************************************)
(* Properties of the System UUID record                                    *)
(***************************************************************************)
\* The bytes 67 45 23 01 AB 89 EF CD 01 23 45 67 89 AB CD EF
UuidOnWire == <<103, 69, 35, 1, 171, 137, 239, 205, 1, 35, 69, 103, 137, 171, 205, 239>>

\* The k-th record of the list is a System UUID record made of the string s
IsUuidRec(k, s) ==
    /\ mr[k].type = "MGMT"
    /\ mr[k].subtype = FRU_MR_MGMT_SYS_UUID
    /\ mr[k].data = s

\* The 16 bytes behind the header and the subtype byte of the k-th record
\* of the multirecord area of the file b
UuidPayload(b, k) ==
    BytesAt(b, MrHeaderPos(b, AreaStart(b, FRU_MR), k) + FRU__FILE_MR_HEADER_SZ + 1,
            FRU__UUID_SIZE)

\* C22: a System UUID record made of "01234567-89AB-CDEF-0123-456789ABCDEF"
\* or of the same 32 digits without dashes is saved with the payload
\* 67 45 23 01 AB 89 EF CD 01 23 45 67 89 AB CD EF: the fields of 4, 2 and 2
\* bytes are reversed, the last 8 bytes are in the order of the string.
UuidFieldsSwapped ==
    (SavedOk /\ present[FRU_MR]) =>
        \A k \in 1..Len(mr) :
            (IsUuidRec(k, UuidDashed) \/ IsUuidRec(k, UuidPlain))
                => UuidPayload(buf, k) = UuidOnWire

\* Both forms of the string were saved in one list
BothUuidFormsSaved ==
    /\ SavedOk
    /\ present[FRU_MR]
    /\ Len(mr) = 2
    /\ IsUuidRec(1, UuidDashed)
    /\ IsUuidRec(2, UuidPlain)
    /\ UuidPayload(buf, 1) = UuidOnWire
    /\ UuidPayload(buf, 2) = UuidOnWire

(***************************************************************************)
(* Properties of the internal use string                                   *)
(***************************************************************************)
\* fru_set_internal_hexstring() or fru_set_internal_binary() has succeeded
InternalSet ==
    call.op \in {"set_internal_hexstring", "set_internal_binary"} /\ call.rc

\* C23: after a successful fru_set_internal_hexstring() or
\* fru_set_internal_binary() the stored string has an even length and holds
\* hex digits only; a string with an odd number of hex digits is not
\* stored.  hexcopy() registers FENOTEVEN for an odd number of digits and
\* goes on to store them.
InternalIsEvenHex ==
    InternalSet =>
        /\ internal # NoString
        /\ Len(internal) % 2 = 0
        /\ \A i \in 1..Len(internal) : IsXDigit(internal[i])

(***************************************************************************)
(* Properties of the automatic position                                    *)
(***************************************************************************)
\* The present areas stand in ord in ascending order of their tags
Ascending(ord, pres) ==
    \A i, j \in Slots : (i < j /\ pres[ord[i]] /\ pres[ord[j]]) => ord[i] < ord[j]

\* C24: when the present areas are in ascending tag order, a successful
\* fru_enable_area() with FRU_APOS_AUTO leaves all present areas, the new
\* one among them, in ascending tag order.  The scan starts with
\* last_pos_atype = FRU_MIN_AREA and compares with <, so an enabled Internal
\* Use area never moves the automatic position behind itself.
AutoKeepsAscending ==
    [][\A a \in Areas :
          (Ascending(order, present) /\ EnableStep(a, FRU_APOS_AUTO) /\ call'.rc)
              => (present'[a] /\ Ascending(order', present'))]_vars


\* C25: fru_enable_area() with the position of an area that is not enabled,
\* the area being enabled included, ends as fru_enable_area() with
\* FRU_APOS_AUTO ends from the same state, with the same order[] and
\* present[], and stores inside order[] only.  The code takes the automatic
\* position only when FRU_APOS_AUTO itself was asked for; for an absent
\* area the scan runs out with new_pos = -1 and order[-1] is stored to.
AbsentPositionIsAuto ==
    [][\A a \in Areas, x \in Areas :
          (~present[x] /\ EnableStep(a, x))
              => /\ order' = EnableArea(order, present, err, a, FRU_APOS_AUTO).order
                 /\ present' = EnableArea(order, present, err, a, FRU_APOS_AUTO).present
                 /\ ~oob']_vars

\* C26: when fru_move_area() returns failure, whatever the area and the
\* position, order[] and present[] are as they were before the call.  The
\* code disables the area first and validates the position afterwards, in
\* fru_enable_area(), so a bad position leaves the area disabled.
FailedMoveChangesNothing ==
    [][(call'.op = "move" /\ ~call'.rc) => (order' = order /\ present' = present)]_vars

(***************************************************************************)
(* Properties of the two passes of fru_savebuffer()                        *)
(***************************************************************************)
\* fru_savebuffer() was called on an instance whose internal use area, if
\* enabled, has data; the call returned or the process faulted in it
SaveTried ==
    /\ call.op \in {"save", "crash"}
    /\ present[FRU_INTERNAL_USE] => internal # NoString

\* C27: the size the sizing pass of fru_savebuffer() comes to is the number
\* of bytes the writing pass stores, for every area and every record, raw
\* records with text data among them, so the writing pass stays inside the
\* buffer of that size.  encode_iu_area() clears one byte behind the size
\* it reports, and encode_mr_raw_record() counts no byte of text data and
\* copies it through the NULL pointer of the sizing pass.
SizingMatchesWriting == SaveTried => (call.op = "save" /\ ~oob)

(***************************************************************************)
(* Properties of the encoded-field buffer                                  *)
(***************************************************************************)
\* C28: whatever the length of the string, the field encoder stores at
\* most 63 bytes of data behind the type/length byte and never past the
\* 64-byte buffer; a string that needs more is cut to fit and FE2BIG is
\* registered.  Checked on encode_bcdplus(), whose loop runs over the whole
\* string whatever length it was cut to.
FieldFitsBuffer ==
    call.op \in {"bcd_loop", "encode_bcdplus"} =>
        /\ ~oob
        /\ Len(enc.data) <= FRU__FIELDMAXLEN
        /\ (call.rc /\ (Len(fld.val) + 1) \div 2 > FRU__FIELDMAXLEN) => err = FE2BIG

(***************************************************************************)
(* Properties of the end of an info area                                   *)
(***************************************************************************)
\* The 0-based position behind n fields that start at position p of b,
\* following the length bits of the type/length bytes
RECURSIVE FieldsEnd(_, _, _)
FieldsEnd(b, p, n) ==
    IF n = 0 THEN p
    ELSE FieldsEnd(b, p + FRU__FIELDSIZE(ByteAt(b, p)), n - 1)

\* Where the fields of info area a start in an area at position p, and
\* where the area ends: at the next area of the file, or at its end
FirstFieldAt(p, a) ==
    p + FRU__INFO_AREA_HEADER_SZ + (IF FRU__AREA_HAS_DATE(a) THEN 3 ELSE 0)
AreaEndAt(b, at, a) ==
    IF \E x \in Areas : present[x] /\ at[x] > at[a]
    THEN CHOOSE e \in {at[x] : x \in {y \in Areas : present[y] /\ at[y] > at[a]}} :
             \A x \in Areas : (present[x] /\ at[x] > at[a]) => e <= at[x]
    ELSE Len(b)

\* The area a at position at[a] of b ends as the format asks: t is the
\* position behind its last field and used the bytes up to and with the
\* terminator
InfoAreaEnds(b, at, a) ==
    LET t == FieldsEnd(b, FirstFieldAt(at[a], a), fru__fieldcount(a) + Len(cust[a]))
        used == t + 1 - at[a]
        blocks == (used + 1 + FRU__BLOCK_SZ - 1) \div FRU__BLOCK_SZ
    IN  /\ ByteAt(b, t) = FRU__FIELD_TERMINATOR
        /\ AreaEndAt(b, at, a) = at[a] + FRU__BLOCK_SZ * blocks
        /\ \A i \in (t + 1)..(at[a] + FRU__BLOCK_SZ * blocks - 2) : ByteAt(b, i) = 0

\* C29: every info area of a saved buffer has the terminator byte 0xC1
\* right behind its last field, takes 8 * blocks bytes with blocks the
\* bytes of header, fields, terminator and checksum rounded up to whole
\* blocks, and holds zero bytes alone between the terminator and the
\* checksum in its last byte.
InfoAreasPadded ==
    SavedOk => \A a \in InfoAreas : present[a] => InfoAreaEnds(buf, PlacedAt, a)

\* A saved board area whose header, fields and terminator fill two blocks
\* to the last byte, so that the checksum takes a third
FullBlockAreaSaved ==
    /\ SavedOk
    /\ present[FRU_BOARD_INFO]
    /\ present[FRU_CHASSIS_INFO]
    /\ Len(cust[FRU_BOARD_INFO]) = 1
    /\ Len(cust[FRU_BOARD_INFO][1].val) = 3
    /\ ByteAt(buf, PlacedAt[FRU_BOARD_INFO] + 1) = 3

(***************************************************************************)
(* Properties of fru_savefile()                                            *)
(***************************************************************************)
\* The sequence p is the start of the sequence b
IsPrefix(p, b) == Len(p) <= Len(b) /\ p = SubSeq(b, 1, Len(p))

\* C30: fru_savefile() writes the encoded buffer to the file once, byte
\* for byte, whatever write() returns: while it writes the file holds the
\* start of the buffer, no byte twice, none left out and none behind the
\* encoded size, and when it returns true the file holds the buffer.  The
\* code starts every write() at the first byte of the buffer.
FileWrittenOnce ==
    InSaveFile =>
        /\ cur.pc = "write" => IsPrefix(cur.file, buf)
        /\ cur.pc = "done" => cur.file = buf

\* A fru_savefile() that got to its loop returns
FileWriteEnds ==
    (InSaveFile /\ cur.pc = "write") ~> (InSaveFile /\ cur.pc \in {"done", "failed"})
====
